---- MODULE Spec2Model ----
(***************************************************************************)
(* Model of the Zedge publisher worker (v2 worker, src/unnamed/part_002,   *)
(* with the daily backup job of src/worker.js): the scheduling engine, the *)
(* single-flight publish queue, the missed-item cache and the database     *)
(* failover controller.                                                    *)
(*                                                                         *)
(* Every data-store round trip is two steps: the query executes at the     *)
(* database (a snapshot is read or a document is written), and later the   *)
(* awaiting function resumes.  Synchronous code between two awaits is one  *)
(* atomic step (Node.js runs it to completion).                            *)
(***************************************************************************)
EXTENDS Integers, Sequences, FiniteSets, TLC

\* ------------------------------------------------------------------------
\* Bounds of the model
\* ------------------------------------------------------------------------
MaxPrimaries == 2
MaxTime == 1
MaxQueue == 2
MaxCache == 3
MaxScans == 2
MaxCommands == 1
MaxSwitches == 2
MaxBatch == 25
MaxPauses == 2

Switchers == {"sw1", "sw2"}
Scanners == {"scan1", "scan2"}
Drainers == {"drain1", "drain2"}
Requests == {"req1"}
ItemIds == {1, 2}

\* ------------------------------------------------------------------------
\* Program constants
\* ------------------------------------------------------------------------
RECENTLY_PUBLISHED_LIMIT == 20
GraceWindow == 5

\* ------------------------------------------------------------------------
\* JavaScript values of db_config.active_index / activeDbIndex.
\* A number is kept as twice its value so that a non-integer (0.5) exists.
\* ------------------------------------------------------------------------
Undefined == [kind |-> "undefined", num2 |-> 0]
Num(k) == [kind |-> "number", num2 |-> 2 * k]
Half == [kind |-> "number", num2 |-> 1]

IsInt(v) == v.kind = "number" /\ v.num2 % 2 = 0
IntOf(v) == v.num2 \div 2

\* The pool that primaryPools[v] evaluates to; a pool is its position in
\* primaryPools, NoPool stands for the JavaScript value undefined.
NoPool == 0 - 1
PoolAt(v, len) == IF IsInt(v) /\ IntOf(v) >= 0 /\ IntOf(v) < len THEN IntOf(v) ELSE NoPool

\* (v + 1) % len
NextDbIndex(v, len) == [kind |-> "number", num2 |-> (v.num2 + 2) % (2 * len)]

\* ------------------------------------------------------------------------
\* Documents (the single row id = 1 of app_data)
\* ------------------------------------------------------------------------
NoData == [present |-> FALSE, schedule |-> <<>>, recentlyPublished |-> <<>>, active_index |-> Undefined]
MkDoc(s, r, ix) == [present |-> TRUE, schedule |-> s, recentlyPublished |-> r, active_index |-> ix]

VARIABLES
    app,                    \* startApp: "boot", "initialized", "running", "exited"
    env,                    \* process.env: number of PRIMARY_DB_i and BACKUP_DB present
    primaryPools,           \* primaryPools.length
    backupPool,             \* TRUE when backupPool is set
    activePool,             \* position of the active pool, NoPool when undefined
    activeDbIndex,          \* JavaScript value
    primary,                \* document stored in each primary database
    backup,                 \* document stored in the backup database
    sw,                     \* activations of switchDatabase
    bk,                     \* the daily backup job
    now,                    \* wall clock, minutes
    publishingInProgress,
    publishingQueue,
    isQueueProcessing,
    missedItemsCache,
    missedItemsNotificationSent,
    isWorkerPaused,
    req,                    \* activations of the request handlers (publish-now, ...)
    scan,                   \* activations of checkScheduleForPublishing
    drain,                  \* activations of processPublishingQueue
    hist                    \* history of observable events (not program state)

dbVars == <<app, env, primaryPools, backupPool, activePool, activeDbIndex, primary, backup, sw, bk>>
schedVars == <<now, publishingInProgress, publishingQueue, isQueueProcessing, missedItemsCache,
               missedItemsNotificationSent, isWorkerPaused, req, scan, drain, hist>>
vars == <<app, env, primaryPools, backupPool, activePool, activeDbIndex, primary, backup, sw, bk,
          now, publishingInProgress, publishingQueue, isQueueProcessing, missedItemsCache,
          missedItemsNotificationSent, isWorkerPaused, req, scan, drain, hist>>

PrimaryIds == 0 .. (MaxPrimaries - 1)

\* ------------------------------------------------------------------------
\* Scheduled items
\* ------------------------------------------------------------------------
NoTime == 0 - 1
Title(id) == IF id = 1 THEN "Sunset" ELSE "Dawn"
MkItem(id, at) == [id |-> id, title |-> Title(id), scheduledAtUTC |-> at, status |-> "Pending",
                   failMessage |-> "", publishedAtUTC |-> NoTime]

NoItem == MkItem(0, 0)
ScanIdle == [pc |-> "idle", now |-> 0, data |-> NoData, newlyMissed |-> <<>>, pool |-> NoPool, seen |-> {},
             ok |-> TRUE, publishedAtLoad |-> {}]
NoNote == [kind |-> "none", id |-> 0]
DrainIdle == [pc |-> "idle", item |-> NoItem, by |-> "none", result |-> "none", data |-> NoData, pool |-> NoPool,
              prev |-> "none", note |-> NoNote, publishedAtLoad |-> {}]
HistIdle == [switches |-> 0, backupRead |-> "none", batch |-> {}, scans |-> 0, commands |-> 0,
             alerts |-> 0, quiet |-> FALSE, named |-> {}, published |-> <<>>,
             pauses |-> 0, skipped |-> 0, failedAt |-> 0, pausedQueue |-> {}, succeeded |-> {}]
ReqIdle == [pc |-> "idle", ids |-> {}, data |-> NoData, op |-> "none", identifier |-> "", time |-> <<>>,
            result |-> "none", publishedAtLoad |-> {}]


\* ========================================================================
\* DATABASE MANAGEMENT
\* ========================================================================
SwIdle == [pc |-> "idle", next |-> Undefined, src |-> NoPool, entryIdx |-> Undefined, data |-> NoData,
           m1ok |-> TRUE, failedAt |-> "none", wroteNext |-> FALSE, disturbed |-> FALSE,
           entryDoc |-> NoData]
BkIdle == [pc |-> "idle", src |-> NoPool, data |-> NoData]

\* initializeDatabases: one pool per PRIMARY_DB_i, the optional backup pool,
\* the first primary active; no primary at all is fatal.
InitializeDatabases ==
    /\ app = "boot"
    /\ IF env.primaries = 0
       THEN /\ app' = "exited"
            /\ UNCHANGED <<primaryPools, backupPool, activePool, activeDbIndex>>
       ELSE /\ app' = "initialized"
            /\ primaryPools' = env.primaries
            /\ backupPool' = env.backup
            /\ activePool' = 0
            /\ activeDbIndex' = Num(0)
    /\ UNCHANGED <<env, primary, backup, sw, bk>>
    /\ UNCHANGED schedVars

\* backupIndex < primaryPools.length
JsLess(v, len) == v.kind = "number" /\ v.num2 < 2 * len

\* The condition under which reconcileActiveDbIndex adopts the backup's index.
AdoptsBackupIndex(backupIndex, cur, len) ==
    backupIndex # Undefined /\ backupIndex # cur /\ JsLess(backupIndex, len)

\* reconcileActiveDbIndex: read the backup's document and adopt its
\* db_config.active_index; a failed read only sends an alert.
ReconcileActiveDbIndex ==
    /\ app = "initialized"
    /\ app' = "running"
    /\ \E ok \in BOOLEAN :
          /\ hist' = [hist EXCEPT !.backupRead = IF backupPool /\ ok THEN "ok" ELSE "failed"]
          /\ IF backupPool /\ ok /\ backup.present
                /\ AdoptsBackupIndex(backup.active_index, activeDbIndex, primaryPools)
             THEN /\ activeDbIndex' = backup.active_index
                  /\ activePool' = PoolAt(backup.active_index, primaryPools)
             ELSE UNCHANGED <<activeDbIndex, activePool>>
    /\ UNCHANGED <<env, primaryPools, backupPool, primary, backup, sw, bk>>
    /\ UNCHANGED <<now, publishingInProgress, publishingQueue, isQueueProcessing, missedItemsCache,
                   missedItemsNotificationSent, isWorkerPaused, req, scan, drain>>

\* The guard of switchDatabase.
NotEnoughDatabasesBackupOnly(hasBackup, len) == ~hasBackup

NotEnoughDatabases(hasBackup, len) == ~hasBackup \/ len < 2

SwFail(p, step) == sw' = [sw EXCEPT ![p].pc = "failed", ![p].failedAt = step, ![p].data = NoData]

\* switchDatabase up to its first await: the guard, nextDbIndex, nextPool,
\* and the call migrateData(activePool, backupPool).
SwitchStart(p) ==
    /\ app = "running"
    /\ sw[p].pc \in {"idle", "done", "failed"}
    /\ hist.switches < MaxSwitches
    /\ hist' = [hist EXCEPT !.switches = @ + 1]
    /\ IF NotEnoughDatabases(backupPool, primaryPools)
       THEN sw' = [sw EXCEPT ![p] = [SwIdle EXCEPT !.pc = "failed", !.failedAt = "topology",
                                                  !.entryIdx = activeDbIndex, !.src = activePool]]
       ELSE sw' = [sw EXCEPT ![p] = [SwIdle EXCEPT !.pc = "m1read",
                                                  !.next = NextDbIndex(activeDbIndex, primaryPools),
                                                  !.entryIdx = activeDbIndex, !.src = activePool,
                                                  !.entryDoc = IF activePool = NoPool THEN NoData
                                                               ELSE primary[activePool]]]
    /\ UNCHANGED <<app, env, primaryPools, backupPool, activePool, activeDbIndex, primary, backup, bk>>
    /\ UNCHANGED <<now, publishingInProgress, publishingQueue, isQueueProcessing, missedItemsCache,
                   missedItemsNotificationSent, isWorkerPaused, req, scan, drain>>

\* migrateData(activePool, backupPool), SELECT on the source.  Its result
\* is not checked by switchDatabase: on failure the cutover goes on.
SwM1Read(p) ==
    /\ sw[p].pc = "m1read"
    /\ \E ok \in BOOLEAN :
          IF ok /\ sw[p].src # NoPool /\ primary[sw[p].src].present
          THEN sw' = [sw EXCEPT ![p].pc = "m1write", ![p].data = primary[sw[p].src]]
          ELSE sw' = [sw EXCEPT ![p].pc = "m2read", ![p].m1ok = FALSE]
    /\ UNCHANGED <<app, env, primaryPools, backupPool, activePool, activeDbIndex, primary, backup, bk>>
    /\ UNCHANGED schedVars

\* migrateData(activePool, backupPool), upsert on the backup.
SwM1Write(p) ==
    /\ sw[p].pc = "m1write"
    /\ \E ok \in BOOLEAN :
          IF ok
          THEN /\ backup' = sw[p].data
               /\ sw' = [sw EXCEPT ![p].pc = "m2read", ![p].data = NoData]
          ELSE /\ backup' = backup
               /\ sw' = [sw EXCEPT ![p].pc = "m2read", ![p].data = NoData, ![p].m1ok = FALSE]
    /\ UNCHANGED <<app, env, primaryPools, backupPool, activePool, activeDbIndex, primary, bk>>
    /\ UNCHANGED schedVars

\* if (!restoreResult.success) throw ...: the catch block reports the
\* failure and the active pointer is not touched.
OnRestoreFailureIgnored(p, step) ==
    sw' = [sw EXCEPT ![p].pc = "w1", ![p].failedAt = step,
                     ![p].data = [backup EXCEPT !.active_index = sw[p].next]]

OnRestoreFailure(p, step) == SwFail(p, step)

\* migrateData(backupPool, nextPool), SELECT on the backup.
SwM2Read(p) ==
    /\ sw[p].pc = "m2read"
    /\ \E ok \in BOOLEAN :
          IF ok /\ backup.present
          THEN sw' = [sw EXCEPT ![p].pc = "m2write", ![p].data = backup]
          ELSE OnRestoreFailure(p, "m2read")
    /\ UNCHANGED <<app, env, primaryPools, backupPool, activePool, activeDbIndex, primary, backup, bk>>
    /\ UNCHANGED schedVars

\* migrateData(backupPool, nextPool), upsert on the next primary; then
\* finalData is the migrated document stamped with nextDbIndex.
SwM2Write(p) ==
    /\ sw[p].pc = "m2write"
    /\ LET nextPool == PoolAt(sw[p].next, primaryPools) IN
       \E ok \in BOOLEAN :
          IF ok /\ nextPool # NoPool
          THEN /\ primary' = [primary EXCEPT ![nextPool] = sw[p].data]
               /\ sw' = [sw EXCEPT ![p].pc = "w1", ![p].wroteNext = TRUE,
                                   ![p].data = [sw[p].data EXCEPT !.active_index = sw[p].next]]
          ELSE /\ primary' = primary
               /\ OnRestoreFailure(p, "m2write")
    /\ UNCHANGED <<app, env, primaryPools, backupPool, activePool, activeDbIndex, backup, bk>>
    /\ UNCHANGED schedVars

\* The order of the last statements of the try block of switchDatabase:
\* write finalData to the next primary ("w1"), write it to the backup
\* ("w2"), assign activePool and activeDbIndex ("flip"), report success.
FlipBeforeBackupWrite(step) ==
    CASE step = "w1" -> "flip" [] step = "flip" -> "w2" [] step = "w2" -> "done"

AfterStep(step) ==
    CASE step = "w1" -> "w2" [] step = "w2" -> "flip" [] step = "flip" -> "done"

\* UPDATE app_data SET data = finalData on the next primary.
SwWriteNext(p) ==
    /\ sw[p].pc = "w1"
    /\ LET nextPool == PoolAt(sw[p].next, primaryPools) IN
       \E ok \in BOOLEAN :
          IF ok /\ nextPool # NoPool
          THEN /\ primary' = [primary EXCEPT ![nextPool] =
                                 IF primary[nextPool].present THEN sw[p].data ELSE primary[nextPool]]
               /\ sw' = [sw EXCEPT ![p].pc = AfterStep("w1"), ![p].wroteNext = TRUE]
          ELSE /\ primary' = primary
               /\ SwFail(p, "w1")
    /\ UNCHANGED <<app, env, primaryPools, backupPool, activePool, activeDbIndex, backup, bk>>
    /\ UNCHANGED schedVars

\* activePool = nextPool; activeDbIndex = nextDbIndex
Flip(p) ==
    /\ activePool' = PoolAt(sw[p].next, primaryPools)
    /\ activeDbIndex' = sw[p].next

\* UPDATE app_data SET data = finalData on the backup.
SwWriteBackup(p) ==
    /\ sw[p].pc = "w2"
    /\ \E ok \in BOOLEAN :
          IF ok
          THEN /\ backup' = IF backup.present THEN sw[p].data ELSE backup
               /\ sw' = [sw EXCEPT ![p].pc = AfterStep("w2"),
                                   ![p].data = IF AfterStep("w2") = "done" THEN NoData ELSE @]
          ELSE /\ backup' = backup
               /\ SwFail(p, "w2")
    /\ UNCHANGED <<app, env, primaryPools, backupPool, activePool, activeDbIndex, primary, bk>>
    /\ UNCHANGED schedVars

\* The continuation after the last write: the in-memory pointer flips and
\* success is reported.
SwFlip(p) ==
    /\ sw[p].pc = "flip"
    /\ Flip(p)
    /\ sw' = [q \in Switchers |->
                IF q = p THEN [sw[p] EXCEPT !.pc = AfterStep("flip"),
                                           !.data = IF AfterStep("flip") = "done" THEN NoData ELSE @]
                ELSE [sw[q] EXCEPT !.disturbed = TRUE]]
    /\ UNCHANGED <<app, env, primaryPools, backupPool, primary, backup, bk>>
    /\ UNCHANGED schedVars

\* Daily backup job: migrateData(activePool, backupPool).
BackupStart ==
    /\ app = "running"
    /\ backupPool
    /\ bk.pc = "idle"
    /\ bk' = [pc |-> "read", src |-> activePool, data |-> NoData]
    /\ UNCHANGED <<app, env, primaryPools, backupPool, activePool, activeDbIndex, primary, backup, sw>>
    /\ UNCHANGED schedVars

BackupRead ==
    /\ bk.pc = "read"
    /\ \E ok \in BOOLEAN :
          IF ok /\ bk.src # NoPool /\ primary[bk.src].present
          THEN bk' = [bk EXCEPT !.pc = "write", !.data = primary[bk.src]]
          ELSE bk' = BkIdle
    /\ UNCHANGED <<app, env, primaryPools, backupPool, activePool, activeDbIndex, primary, backup, sw>>
    /\ UNCHANGED schedVars

BackupWrite ==
    /\ bk.pc = "write"
    /\ \E ok \in BOOLEAN : backup' = IF ok THEN bk.data ELSE backup
    /\ bk' = BkIdle
    /\ UNCHANGED <<app, env, primaryPools, backupPool, activePool, activeDbIndex, primary, sw>>
    /\ UNCHANGED schedVars

\* ------------------------------------------------------------------------
\* The failover controller on its own: process start-up on any topology and
\* any stored documents, then cutovers and backup jobs in any interleaving.
\* ------------------------------------------------------------------------
BackupIndexValues == {Undefined, Half} \cup {Num(k) : k \in (0 - 1) .. MaxPrimaries}
StoredDoc(i) == MkDoc(<<MkItem(i + 1, 0)>>, <<>>, Num(i))

SchedInitIdle ==
    /\ now = 0
    /\ publishingInProgress = {}
    /\ publishingQueue = <<>>
    /\ isQueueProcessing = FALSE
    /\ missedItemsCache = <<>>
    /\ missedItemsNotificationSent = FALSE
    /\ isWorkerPaused = FALSE
    /\ req = [r \in Requests |-> ReqIdle]
    /\ scan = [s \in Scanners |-> ScanIdle]
    /\ drain = [d \in Drainers |-> DrainIdle]
    /\ hist = HistIdle

InitDb ==
    /\ app = "boot"
    /\ env \in [primaries : 0 .. MaxPrimaries, backup : BOOLEAN]
    /\ primaryPools = 0
    /\ backupPool = FALSE
    /\ activePool = NoPool
    /\ activeDbIndex = Num(0)
    /\ primary \in [PrimaryIds -> {NoData}] \cup {[i \in PrimaryIds |-> IF i < n THEN StoredDoc(i) ELSE NoData] : n \in 1 .. MaxPrimaries}
    /\ backup \in {NoData} \cup {MkDoc(<<MkItem(9, 0)>>, <<>>, ix) : ix \in BackupIndexValues}
    /\ sw = [p \in Switchers |-> SwIdle]
    /\ bk = BkIdle
    /\ SchedInitIdle

NextDb ==
    \/ InitializeDatabases
    \/ ReconcileActiveDbIndex
    \/ \E p \in Switchers : SwitchStart(p)
    \/ \E p \in Switchers : SwM1Read(p)
    \/ \E p \in Switchers : SwM1Write(p)
    \/ \E p \in Switchers : SwM2Read(p)
    \/ \E p \in Switchers : SwM2Write(p)
    \/ \E p \in Switchers : SwWriteNext(p)
    \/ \E p \in Switchers : SwWriteBackup(p)
    \/ \E p \in Switchers : SwFlip(p)
    \/ BackupStart
    \/ BackupRead
    \/ BackupWrite

SpecDb == InitDb /\ [][NextDb]_vars

\* ========================================================================
\* CORE APPLICATION LOGIC
\* ========================================================================
\* The document loadData returns when the row is missing or the query fails.
DefaultDocStale == MkDoc(<<MkItem(1, 0 - 6)>>, <<>>, Num(0))

DefaultDoc == MkDoc(<<>>, <<>>, Num(0))

\* loadData: the stored document of the active pool; the default document
\* when there is no row or when connecting or querying throws.
LoadData(pool, ok) ==
    IF ok /\ pool # NoPool /\ primary[pool].present THEN primary[pool] ELSE DefaultDoc

\* saveData, up to the query: the document is stamped with activeDbIndex.
Stamped(doc) == [doc EXCEPT !.active_index = activeDbIndex]

\* saveData, the upsert on the pool that was active at the call; an error
\* is logged and swallowed.
\* The ids the stored document has in recentlyPublished and not in schedule.
PublishedIds(doc) == {doc.recentlyPublished[k].id : k \in DOMAIN doc.recentlyPublished}
                         \ {doc.schedule[k].id : k \in DOMAIN doc.schedule}
StorePublished ==
    IF activePool # NoPool /\ primary[activePool].present THEN PublishedIds(primary[activePool]) ELSE {}

Saved(pool, doc, ok) ==
    IF ok /\ pool # NoPool THEN [primary EXCEPT ![pool] = doc] ELSE primary

Ids(seq) == {seq[k].id : k \in DOMAIN seq}
IndexOfId(seq, id) ==
    IF id \in Ids(seq) THEN CHOOSE k \in DOMAIN seq : seq[k].id = id /\ \A j \in 1 .. (k - 1) : seq[j].id # id
    ELSE 0
SelectSeqIds(seq, ids) == SelectSeq(seq, LAMBDA it : it.id \in ids)

\* An entry of publishingQueue: the item, and (history only) who queued it.
QEntry(it, who) == [item |-> it, by |-> who]
QEntriesReversed(items, who) == [k \in DOMAIN items |-> QEntry(items[Len(items) + 1 - k], who)]

QEntries(items, who) == [k \in DOMAIN items |-> QEntry(items[k], who)]
QueueIds == {publishingQueue[k].item.id : k \in DOMAIN publishingQueue}
InFlight(d) == drain[d].pc # "idle"
InFlightIds == {drain[d].item.id : d \in {x \in Drainers : InFlight(x)}}

\* ------------------------------------------------------------------------
\* processPublishingQueue
\* ------------------------------------------------------------------------
\* isQueueProcessing = true
MarkProcessingForgotten == FALSE

MarkProcessing == TRUE

\* The guard at the top of processPublishingQueue.
DrainReturnsAtOnce(flag, q) == flag \/ Len(q) = 0

\* A call of processPublishingQueue up to its first await: the guard, the
\* flag, the shift of the head and the start of its publish workflow.
DrainCall(q, flag, dr) ==
    IF DrainReturnsAtOnce(flag, q)
    THEN [q |-> q, flag |-> flag, dr |-> dr, started |-> {}]
    ELSE LET d == CHOOSE x \in Drainers : dr[x].pc = "idle" IN
         [q |-> Tail(q), flag |-> MarkProcessing,
          dr |-> [dr EXCEPT ![d] = [DrainIdle EXCEPT !.pc = "publishing", !.item = Head(q).item,
                                                     !.by = Head(q).by]],
          started |-> {Head(q).item.id}]

CanDrainCall(q, flag, dr) ==
    DrainReturnsAtOnce(flag, q) \/ \E x \in Drainers : dr[x].pc = "idle"

\* finally { publishingInProgress.delete(itemToPublish.id) }
FinallyDelete(inProgress, id) == inProgress \ {id}

\* while (publishingQueue.length > 0)
LoopStopsAfterOne(q) == FALSE

LoopGoesOn(q) == Len(q) > 0

\* The end of one iteration of the while loop: the finally block, then the
\* next shift or, with an empty queue, isQueueProcessing = false.
DrainAdvance(d, outcome) ==
    /\ publishingInProgress' = FinallyDelete(publishingInProgress, drain[d].item.id)
    /\ IF LoopGoesOn(publishingQueue)
       THEN /\ publishingQueue' = Tail(publishingQueue)
            /\ drain' = [drain EXCEPT ![d] = [DrainIdle EXCEPT !.pc = "publishing",
                                                               !.item = Head(publishingQueue).item,
                                                               !.by = Head(publishingQueue).by,
                                                               !.prev = outcome]]
            /\ isQueueProcessing' = isQueueProcessing
            /\ hist' = [hist EXCEPT !.batch = @ \cup {Head(publishingQueue).item.id}]
       ELSE /\ publishingQueue' = publishingQueue
            /\ drain' = [drain EXCEPT ![d] = DrainIdle]
            /\ isQueueProcessing' = FALSE
            /\ hist' = hist

\* catch (error) { console.error(...) }: the exception of one workflow is
\* logged and the iteration ends like any other.
OnThrowLoopAborts(d) ==
    /\ publishingInProgress' = FinallyDelete(publishingInProgress, drain[d].item.id)
    /\ drain' = [drain EXCEPT ![d] = DrainIdle]
    /\ UNCHANGED <<publishingQueue, isQueueProcessing, hist>>

OnThrow(d) == DrainAdvance(d, "threw")

\* performPublish ends (success, failed, or its finally block throws) and
\* executePublishWorkflow goes on to loadData, whose query executes.
PublishFinish(d) ==
    /\ drain[d].pc = "publishing"
    /\ \E r \in {"success", "failed", "threw"} :
          IF r = "threw"
          THEN OnThrow(d)
          ELSE /\ \E ok \in BOOLEAN :
                    drain' = [drain EXCEPT ![d].pc = "loaded", ![d].result = r,
                                           ![d].data = LoadData(activePool, ok),
                                           ![d].publishedAtLoad = StorePublished]
               /\ hist' = [hist EXCEPT !.succeeded = IF r = "success" THEN @ \cup {drain[d].item.id} ELSE @]
               /\ UNCHANGED <<publishingInProgress, publishingQueue, isQueueProcessing>>
    /\ UNCHANGED dbVars
    /\ UNCHANGED <<now, missedItemsCache, missedItemsNotificationSent, isWorkerPaused, req, scan>>

\* slice(0, n)
TruncateKeepsOldest(seq, n) == IF Len(seq) > n THEN SubSeq(seq, Len(seq) - n + 1, Len(seq)) ELSE seq

Truncate(seq, n) == IF Len(seq) > n THEN SubSeq(seq, 1, n) ELSE seq
RemoveAt(seq, k) == SubSeq(seq, 1, k - 1) \o SubSeq(seq, k + 1, Len(seq))

\* result.message of performPublish: the message of the error it caught,
\* a failed login check included.
ResultMessage(result) == IF result = "success" THEN "Published and verified successfully." ELSE "publish failed"

\* The document executePublishWorkflow saves for a found item.
WorkflowUpdateKeepsItem(doc, k, result, t) ==
    IF result = "success"
    THEN [doc EXCEPT !.recentlyPublished =
                         Truncate(<<[doc.schedule[k] EXCEPT !.status = "Published", !.publishedAtUTC = t]>>
                                  \o doc.recentlyPublished, RECENTLY_PUBLISHED_LIMIT)]
    ELSE [doc EXCEPT !.schedule[k].status = "Failed", !.schedule[k].failMessage = ResultMessage(result)]

WorkflowUpdate(doc, k, result, t) ==
    IF result = "success"
    THEN [doc EXCEPT !.schedule = RemoveAt(doc.schedule, k),
                     !.recentlyPublished =
                         Truncate(<<[doc.schedule[k] EXCEPT !.status = "Published", !.publishedAtUTC = t]>>
                                  \o doc.recentlyPublished, RECENTLY_PUBLISHED_LIMIT)]
    ELSE [doc EXCEPT !.schedule[k].status = "Failed", !.schedule[k].failMessage = ResultMessage(result)]

\* sendNotification of executePublishWorkflow: "Published" or "Failed", with
\* the title of the item.
WorkflowNotification(result, id) ==
    [kind |-> IF result = "success" THEN "Published" ELSE "Failed", id |-> id]

\* executePublishWorkflow after loadData: the item is looked up by id; if
\* found the document is updated and saveData is called, otherwise the
\* workflow returns and the loop goes on.
DrainUpdate(d) ==
    /\ drain[d].pc = "loaded"
    /\ LET k == IndexOfId(drain[d].data.schedule, drain[d].item.id) IN
       IF k > 0
       THEN /\ drain' = [drain EXCEPT ![d].pc = "saving", ![d].pool = activePool,
                            ![d].note = WorkflowNotification(drain[d].result, drain[d].item.id),
                            ![d].data = Stamped(WorkflowUpdate(drain[d].data, k, drain[d].result, now))]
            /\ UNCHANGED <<publishingInProgress, publishingQueue, isQueueProcessing, hist>>
       ELSE DrainAdvance(d, drain[d].result)
    /\ UNCHANGED dbVars
    /\ UNCHANGED <<now, missedItemsCache, missedItemsNotificationSent, isWorkerPaused, req, scan>>

\* The upsert of saveData executes (or fails), executePublishWorkflow
\* returns and the iteration ends.
DrainSave(d) ==
    /\ drain[d].pc = "saving"
    /\ \E ok \in BOOLEAN : primary' = Saved(drain[d].pool, drain[d].data, ok)
    /\ DrainAdvance(d, drain[d].result)
    /\ UNCHANGED <<app, env, primaryPools, backupPool, activePool, activeDbIndex, backup, sw, bk>>
    /\ UNCHANGED <<now, missedItemsCache, missedItemsNotificationSent, isWorkerPaused, req, scan>>


\* ------------------------------------------------------------------------
\* checkScheduleForPublishing
\* ------------------------------------------------------------------------
MissedMessage == "Publication was missed at the scheduled time."

\* scheduleDateTime > now
IsFuture(at, t) == at > t
\* scheduleDateTime < fiveMinutesAgo
IsMissedInclusive(at, t) == at <= t - GraceWindow

IsMissed(at, t) == at < t - GraceWindow

\* The test that lets a scan mark a late item as newly missed.
MayMarkMissed(id, cacheIds, inProgress) == id \notin cacheIds /\ id \notin inProgress

\* The test that lets a scan queue a due item.
MayQueueDue(id, inProgress) == id \notin inProgress

\* The for loop over the loaded schedule, in schedule order.  st holds the
\* schedule being modified in place, publishingInProgress, the items pushed
\* to publishingQueue, newlyMissedItems and dataWasChanged.
RECURSIVE ScanItems(_, _, _)
ScanItems(k, t, st) ==
    IF k > Len(st.schedule) THEN st
    ELSE LET item == st.schedule[k] IN
         IF item.status # "Pending" \/ IsFuture(item.scheduledAtUTC, t)
         THEN ScanItems(k + 1, t, st)
         ELSE IF IsMissed(item.scheduledAtUTC, t)
         THEN IF MayMarkMissed(item.id, Ids(missedItemsCache), st.inProgress)
              THEN LET failed == [item EXCEPT !.status = "Failed", !.failMessage = MissedMessage] IN
                   ScanItems(k + 1, t, [st EXCEPT !.schedule[k] = failed,
                                                  !.newlyMissed = Append(@, failed),
                                                  !.changed = TRUE])
              ELSE ScanItems(k + 1, t, st)
         ELSE IF MayQueueDue(item.id, st.inProgress)
              THEN ScanItems(k + 1, t, [st EXCEPT !.inProgress = @ \cup {item.id},
                                                  !.pushed = Append(@, item)])
              ELSE ScanItems(k + 1, t, st)

\* if (missedItemsCache.length > 0 && !missedItemsNotificationSent)
AlertDue(cache, sent) == Len(cache) > 0 /\ ~sent

\* missedItemsNotificationSent = true, inside that if
FlagAfterAlertNotSet(sent, alert) == sent

FlagAfterAlert(sent, alert) == sent \/ alert

\* History: the alert just sent names every title of the cache; a cycle
\* that ends with a non-empty cache and sends nothing was debounced.
AlertNoted(h, alert, cache) ==
    IF alert THEN [h EXCEPT !.alerts = @ + 1, !.named = Ids(cache)]
    ELSE IF Len(cache) > 0 THEN [h EXCEPT !.quiet = TRUE]
    ELSE h

\* History: a command took entries out of the cache; emptying it (or
\* clearMissedItemsCache) ends the current incident.
CacheResolved(h, cache, cleared) ==
    [h EXCEPT !.named = @ \cap Ids(cache),
              !.alerts = IF cleared \/ Len(cache) = 0 THEN 0 ELSE @,
              !.quiet = IF cleared \/ Len(cache) = 0 THEN FALSE ELSE @]

\* The end of checkScheduleForPublishing: the newly missed items enter the
\* cache, the drain loop is started if idle, the alert is sent unless the
\* flag says it was.
ScanRest(s, newlyMissed, q, added) ==
    LET cache == missedItemsCache \o newlyMissed
        alert == AlertDue(cache, missedItemsNotificationSent)
        call == IF ~isQueueProcessing /\ Len(q) > 0
                THEN DrainCall(q, isQueueProcessing, drain)
                ELSE [q |-> q, flag |-> isQueueProcessing, dr |-> drain, started |-> {}]
    IN /\ CanDrainCall(q, isQueueProcessing, drain)
       /\ Len(call.q) <= MaxQueue
       /\ Len(cache) <= MaxCache
       /\ missedItemsCache' = cache
       /\ publishingQueue' = call.q
       /\ isQueueProcessing' = call.flag
       /\ drain' = call.dr
       /\ hist' = AlertNoted(IF call.started = {} THEN hist ELSE [hist EXCEPT !.batch = call.started],
                              alert, cache)
       /\ missedItemsNotificationSent' = FlagAfterAlert(missedItemsNotificationSent, alert)
       /\ scan' = [x \in Scanners |->
                     IF x = s THEN ScanIdle
                     ELSE IF scan[x].pc = "idle" THEN scan[x]
                     ELSE [scan[x] EXCEPT !.seen = @ \cup added]]

\* if (isWorkerPaused) return
SkipsWhenPausedNever(paused) == FALSE

SkipsWhenPaused(paused) == paused

\* A timer fires checkScheduleForPublishing: the pause check, now, and the
\* query of loadData; an empty schedule (or a failed load) ends the cycle.
\* The new activation takes the first free record of scan.
ScanStart(s) ==
    /\ app = "running"
    /\ scan[s].pc = "idle"
    /\ s = CHOOSE x \in Scanners : scan[x].pc = "idle"
    /\ ~SkipsWhenPaused(isWorkerPaused)
    /\ hist.scans < MaxScans
    /\ hist' = [hist EXCEPT !.scans = @ + 1]
    /\ \E ok \in BOOLEAN :
          LET data == LoadData(activePool, ok) IN
          /\ Len(data.schedule) > 0
          /\ scan' = [scan EXCEPT ![s] = [ScanIdle EXCEPT !.pc = "loaded", !.now = now, !.data = data,
                                                          !.seen = publishingInProgress, !.ok = ok,
                                                          !.publishedAtLoad = StorePublished]]
    /\ UNCHANGED dbVars
    /\ UNCHANGED <<now, publishingInProgress, publishingQueue, isQueueProcessing, missedItemsCache,
                   missedItemsNotificationSent, isWorkerPaused, req, drain>>

\* The loop over the loaded schedule; then either saveData is called (some
\* item was marked missed) or the cycle runs to its end.
ScanLoop(s) ==
    /\ scan[s].pc = "loaded"
    /\ LET st == ScanItems(1, scan[s].now,
                           [schedule |-> scan[s].data.schedule, inProgress |-> publishingInProgress,
                            pushed |-> <<>>, newlyMissed |-> <<>>, changed |-> FALSE])
           q == publishingQueue \o QEntries(st.pushed, "scan")
       IN /\ publishingInProgress' = st.inProgress
          /\ IF st.changed
             THEN /\ Len(q) <= MaxQueue
                  /\ publishingQueue' = q
                  /\ scan' = [x \in Scanners |->
                                IF x = s
                                THEN [scan[s] EXCEPT !.pc = "saving", !.pool = activePool,
                                                     !.newlyMissed = st.newlyMissed,
                                                     !.data = Stamped([scan[s].data EXCEPT !.schedule = st.schedule])]
                                ELSE IF scan[x].pc = "idle" THEN scan[x]
                                ELSE [scan[x] EXCEPT !.seen = @ \cup (st.inProgress \ publishingInProgress)]]
                  /\ UNCHANGED <<isQueueProcessing, missedItemsCache, missedItemsNotificationSent, drain, hist>>
             ELSE ScanRest(s, <<>>, q, st.inProgress \ publishingInProgress)
    /\ UNCHANGED dbVars
    /\ UNCHANGED <<now, isWorkerPaused, req>>

\* The upsert of saveData executes (or fails) and the cycle runs to its end.
ScanSave(s) ==
    /\ scan[s].pc = "saving"
    /\ \E ok \in BOOLEAN : primary' = Saved(scan[s].pool, scan[s].data, ok)
    /\ ScanRest(s, scan[s].newlyMissed, publishingQueue, {})
    /\ UNCHANGED <<app, env, primaryPools, backupPool, activePool, activeDbIndex, backup, sw, bk>>
    /\ UNCHANGED <<now, publishingInProgress, isWorkerPaused, req>>

\* ------------------------------------------------------------------------
\* Operator commands
\* ------------------------------------------------------------------------
\* String.prototype.toLowerCase on the strings of the model.
ToLowerCase(str) ==
    CASE str = "Sunset" -> "sunset"
      [] str = "SUNSET" -> "sunset"
      [] str = "Dawn" -> "dawn"
      [] str = "Dusk" -> "dusk"
      [] str = "M" -> "m"
      [] OTHER -> str

Identifiers == {"all-missed", "SUNSET", "dawn", "Dusk"}

\* findIndex(item => item.title === identifier)
FindTitleCaseSensitive(cache, identifier) ==
    LET hits == {k \in DOMAIN cache : cache[k].title = identifier} IN
    IF hits = {} THEN 0 ELSE CHOOSE k \in hits : \A j \in hits : k <= j

\* findIndex(item => item.title.toLowerCase() === identifier.toLowerCase())
FindTitle(cache, identifier) ==
    LET hits == {k \in DOMAIN cache : ToLowerCase(cache[k].title) = ToLowerCase(identifier)} IN
    IF hits = {} THEN 0 ELSE CHOOSE k \in hits : \A j \in hits : k <= j

\* publishMissedItems(identifier): itemsToPublish, every cached item or the
\* first one with the given title.
MissedSelection(identifier) ==
    LET k == FindTitle(missedItemsCache, identifier) IN
    IF identifier = "all-missed" THEN missedItemsCache
    ELSE IF k > 0 THEN <<missedItemsCache[k]>> ELSE <<>>

\* The cache after the call.
MissedRemaining(identifier) ==
    LET k == FindTitle(missedItemsCache, identifier) IN
    IF identifier = "all-missed" THEN <<>>
    ELSE IF k > 0 THEN RemoveAt(missedItemsCache, k) ELSE missedItemsCache

\* The push to publishingQueue and the call of processPublishingQueue, made
\* only when something was selected.
MissedCall(identifier) ==
    LET q == publishingQueue \o QEntries(MissedSelection(identifier), "missed") IN
    IF Len(MissedSelection(identifier)) > 0 /\ ~isQueueProcessing
    THEN DrainCall(q, isQueueProcessing, drain)
    ELSE [q |-> q, flag |-> isQueueProcessing, dr |-> drain, started |-> {}]

\* The result publishMissedItems returns.
MissedResult(identifier) ==
    IF Len(MissedSelection(identifier)) > 0 THEN "queued"
    ELSE IF identifier = "all-missed" THEN "no-items" ELSE "not-found"

\* publishMissedItems(identifier): every cached item, or the first one with
\* the given title, moves to publishingQueue and the drain loop is started.
PublishMissedItems(identifier) ==
    /\ app = "running"
    /\ LET call == MissedCall(identifier)
       IN /\ Len(MissedSelection(identifier)) > 0
          /\ CanDrainCall(publishingQueue \o QEntries(MissedSelection(identifier), "missed"),
                          isQueueProcessing, drain)
          /\ Len(call.q) <= MaxQueue
          /\ missedItemsCache' = MissedRemaining(identifier)
          /\ publishingQueue' = call.q
          /\ isQueueProcessing' = call.flag
          /\ drain' = call.dr
          /\ hist.commands < MaxCommands
          /\ hist' = CacheResolved([hist EXCEPT !.commands = @ + 1,
                                                !.batch = IF call.started = {} THEN @ ELSE call.started],
                                   missedItemsCache', FALSE)
    /\ UNCHANGED dbVars
    /\ UNCHANGED <<now, publishingInProgress, missedItemsNotificationSent, isWorkerPaused, req, scan>>

\* clearMissedItemsCache: missedItemsNotificationSent = false
FlagAfterClearKept(sent) == sent

FlagAfterClear(sent) == FALSE

\* clearMissedItemsCache
ClearMissedItemsCache ==
    /\ app = "running"
    /\ missedItemsCache' = <<>>
    /\ missedItemsNotificationSent' = FlagAfterClear(missedItemsNotificationSent)
    /\ hist.commands < MaxCommands
    /\ hist' = CacheResolved([hist EXCEPT !.commands = @ + 1], <<>>, TRUE)
    /\ UNCHANGED dbVars
    /\ UNCHANGED <<now, publishingInProgress, publishingQueue, isQueueProcessing, isWorkerPaused,
                   req, scan, drain>>

\* The itemIds of the publish-now requests: every item of the schedule.
PublishNowIds == {ItemIds}

\* POST action publish-now: publishNowByIds up to the query of loadData.
PublishNowStart(r, ids) ==
    /\ app = "running"
    /\ req[r].pc = "idle"
    /\ hist.commands < MaxCommands
    /\ hist' = [hist EXCEPT !.commands = @ + 1]
    /\ \E ok \in BOOLEAN :
          req' = [req EXCEPT ![r] = [ReqIdle EXCEPT !.pc = "publishNow", !.ids = ids,
                                                      !.data = LoadData(activePool, ok)]]
    /\ UNCHANGED dbVars
    /\ UNCHANGED <<now, publishingInProgress, publishingQueue, isQueueProcessing, missedItemsCache,
                   missedItemsNotificationSent, isWorkerPaused, scan, drain>>

\* publishNowByIds after loadData: the matching schedule entries are pushed
\* to publishingQueue and the drain loop is started.
PublishNowQueue(r) ==
    /\ req[r].pc = "publishNow"
    /\ LET items == SelectSeqIds(req[r].data.schedule, req[r].ids)
           q == publishingQueue \o QEntries(items, "now")
           call == IF Len(items) > 0 /\ ~isQueueProcessing THEN DrainCall(q, isQueueProcessing, drain)
                   ELSE [q |-> q, flag |-> isQueueProcessing, dr |-> drain, started |-> {}]
       IN /\ CanDrainCall(q, isQueueProcessing, drain)
          /\ Len(call.q) <= MaxQueue
          /\ publishingQueue' = call.q
          /\ isQueueProcessing' = call.flag
          /\ drain' = call.dr
          /\ hist' = IF call.started = {} THEN hist ELSE [hist EXCEPT !.batch = call.started]
    /\ req' = [req EXCEPT ![r] = ReqIdle]
    /\ UNCHANGED dbVars
    /\ UNCHANGED <<now, publishingInProgress, missedItemsCache, missedItemsNotificationSent,
                   isWorkerPaused, scan>>

\* The wall clock advances by one minute.
Tick ==
    /\ now < MaxTime
    /\ now' = now + 1
    /\ UNCHANGED dbVars
    /\ UNCHANGED <<publishingInProgress, publishingQueue, isQueueProcessing, missedItemsCache,
                   missedItemsNotificationSent, isWorkerPaused, req, scan, drain, hist>>

\* ------------------------------------------------------------------------
\* The scheduling engine on one primary database, started and running.
\* ------------------------------------------------------------------------
InitialSchedules ==
    { <<MkItem(1, 1), MkItem(2, 0 - 5)>>,
      <<MkItem(1, 0 - 6), MkItem(2, 0 - 6)>> }

Init ==
    /\ app = "running"
    /\ env = [primaries |-> 1, backup |-> FALSE]
    /\ primaryPools = 1
    /\ backupPool = FALSE
    /\ activePool = 0
    /\ activeDbIndex = Num(0)
    /\ \E sch \in InitialSchedules :
          primary = [i \in PrimaryIds |-> IF i = 0 THEN MkDoc(sch, <<>>, Num(0)) ELSE NoData]
    /\ backup = NoData
    /\ sw = [p \in Switchers |-> SwIdle]
    /\ bk = BkIdle
    /\ SchedInitIdle

Next ==
    \/ \E s \in Scanners : ScanStart(s)
    \/ \E s \in Scanners : ScanLoop(s)
    \/ \E s \in Scanners : ScanSave(s)
    \/ \E d \in Drainers : PublishFinish(d)
    \/ \E d \in Drainers : DrainUpdate(d)
    \/ \E d \in Drainers : DrainSave(d)
    \/ \E identifier \in Identifiers : PublishMissedItems(identifier)
    \/ ClearMissedItemsCache
    \/ \E r \in Requests, ids \in PublishNowIds : PublishNowStart(r, ids)
    \/ \E r \in Requests : PublishNowQueue(r)
    \/ Tick

Spec == Init /\ [][Next]_vars

\* ========================================================================
\* THE WORKER WITH ITS PAUSE SWITCH AND ITS IDLE CYCLES
\* ========================================================================
\* pauseWorker: the interval timer is cleared and isWorkerPaused is set; a
\* call on a paused worker returns a failure and changes nothing.
PauseWorker ==
    /\ app = "running"
    /\ ~isWorkerPaused
    /\ hist.pauses < MaxPauses
    /\ isWorkerPaused' = TRUE
    /\ hist' = [hist EXCEPT !.pauses = @ + 1, !.pausedQueue = QueueIds]
    /\ UNCHANGED dbVars
    /\ UNCHANGED <<now, publishingInProgress, publishingQueue, isQueueProcessing, missedItemsCache,
                   missedItemsNotificationSent, req, scan, drain>>

\* resumeWorker: startWorkerIntervals arms the timers again and
\* isWorkerPaused is reset.
ResumeWorker ==
    /\ app = "running"
    /\ isWorkerPaused
    /\ hist.pauses < MaxPauses
    /\ isWorkerPaused' = FALSE
    /\ hist' = [hist EXCEPT !.pauses = @ + 1, !.pausedQueue = {}]
    /\ UNCHANGED dbVars
    /\ UNCHANGED <<now, publishingInProgress, publishingQueue, isQueueProcessing, missedItemsCache,
                   missedItemsNotificationSent, req, scan, drain>>

\* checkScheduleForPublishing called on a paused worker (pauseWorker does
\* not clear the setTimeout that startWorkerIntervals armed): it returns
\* at once.
ScanPaused ==
    /\ app = "running"
    /\ SkipsWhenPaused(isWorkerPaused)
    /\ hist.scans < MaxScans
    /\ hist' = [hist EXCEPT !.scans = @ + 1, !.skipped = @ + 1]
    /\ UNCHANGED dbVars
    /\ UNCHANGED <<now, publishingInProgress, publishingQueue, isQueueProcessing, missedItemsCache,
                   missedItemsNotificationSent, isWorkerPaused, req, scan, drain>>

\* checkScheduleForPublishing whose loadData gives an empty schedule, the
\* default document of a failed load included: the cycle returns.
ScanEmpty ==
    /\ app = "running"
    /\ ~SkipsWhenPaused(isWorkerPaused)
    /\ \E s \in Scanners : scan[s].pc = "idle"
    /\ hist.scans < MaxScans
    /\ \E ok \in BOOLEAN :
          /\ Len(LoadData(activePool, ok).schedule) = 0
          /\ hist' = [hist EXCEPT !.scans = @ + 1,
                                  !.failedAt = IF ok \/ @ # 0 THEN @ ELSE hist.scans + 1]
    /\ UNCHANGED dbVars
    /\ UNCHANGED <<now, publishingInProgress, publishingQueue, isQueueProcessing, missedItemsCache,
                   missedItemsNotificationSent, isWorkerPaused, req, scan, drain>>

WorkerSchedules ==
    { <<MkItem(1, 0), MkItem(2, 0 - 1)>>,
      <<MkItem(1, 0 - 6), MkItem(2, 0)>> }

InitWorker ==
    /\ app = "running"
    /\ env = [primaries |-> 1, backup |-> FALSE]
    /\ primaryPools = 1
    /\ backupPool = FALSE
    /\ activePool = 0
    /\ activeDbIndex = Num(0)
    /\ \E sch \in WorkerSchedules :
          primary = [i \in PrimaryIds |-> IF i = 0 THEN MkDoc(sch, <<>>, Num(0)) ELSE NoData]
    /\ backup = NoData
    /\ sw = [p \in Switchers |-> SwIdle]
    /\ bk = BkIdle
    /\ SchedInitIdle

\* The scan cycles, the drain loop and the commands that enqueue.
NextDrain ==
    \/ \E s \in Scanners : ScanStart(s)
    \/ \E s \in Scanners : ScanLoop(s)
    \/ \E s \in Scanners : ScanSave(s)
    \/ \E d \in Drainers : PublishFinish(d)
    \/ \E d \in Drainers : DrainUpdate(d)
    \/ \E d \in Drainers : DrainSave(d)
    \/ \E identifier \in Identifiers : PublishMissedItems(identifier)
    \/ \E r \in Requests, ids \in PublishNowIds : PublishNowStart(r, ids)
    \/ \E r \in Requests : PublishNowQueue(r)

\* Every continuation that is ready runs, and every publish attempt ends.
FairDrain ==
    /\ \A d \in Drainers : WF_vars(PublishFinish(d)) /\ WF_vars(DrainUpdate(d)) /\ WF_vars(DrainSave(d))
    /\ \A s \in Scanners : WF_vars(ScanLoop(s)) /\ WF_vars(ScanSave(s))
    /\ \A r \in Requests : WF_vars(PublishNowQueue(r))

SpecDrain == InitWorker /\ [][NextDrain]_vars /\ FairDrain

NextWorker ==
    \/ \E s \in Scanners : ScanStart(s)
    \/ \E s \in Scanners : ScanLoop(s)
    \/ \E s \in Scanners : ScanSave(s)
    \/ \E d \in Drainers : PublishFinish(d)
    \/ \E d \in Drainers : DrainUpdate(d)
    \/ \E d \in Drainers : DrainSave(d)
    \/ \E identifier \in Identifiers : PublishMissedItems(identifier)
    \/ PauseWorker
    \/ ResumeWorker
    \/ ScanPaused
    \/ ScanEmpty

SpecWorker == InitWorker /\ [][NextWorker]_vars /\ FairDrain

\* ========================================================================
\* THE OPERATOR COMMANDS ON THE MISSED CACHE, ONE CALL AT A TIME
\* ========================================================================
\* A time string is the sequence of its characters.
Digits == {"0", "1", "2", "3", "4", "5", "6", "7", "8", "9"}
DigitValue(c) ==
    CASE c = "0" -> 0 [] c = "1" -> 1 [] c = "2" -> 2 [] c = "3" -> 3 [] c = "4" -> 4
      [] c = "5" -> 5 [] c = "6" -> 6 [] c = "7" -> 7 [] c = "8" -> 8 [] c = "9" -> 9

\* timeString.slice(0, -1) and timeString.slice(-1)
SliceFront(chars) == SubSeq(chars, 1, Len(chars) - 1)
SliceLast(chars) == IF Len(chars) = 0 THEN "" ELSE chars[Len(chars)]

\* parseInt(str, 10): an optional sign, then the longest prefix of digits;
\* NaN when there is no digit.
NaN == [nan |-> TRUE, val |-> 0]
RECURSIVE ParseDigits(_, _)
ParseDigits(chars, acc) ==
    IF chars = <<>> \/ Head(chars) \notin Digits THEN acc
    ELSE ParseDigits(Tail(chars), 10 * acc + DigitValue(Head(chars)))

ParseInt(chars) ==
    LET signed == chars # <<>> /\ Head(chars) \in {"-", "+"}
        body == IF signed THEN Tail(chars) ELSE chars
    IN IF body = <<>> \/ Head(body) \notin Digits THEN NaN
       ELSE [nan |-> FALSE,
             val |-> IF signed /\ Head(chars) = "-" THEN 0 - ParseDigits(body, 0) ELSE ParseDigits(body, 0)]

\* if (isNaN(value)) return { success: false, ... }
InvalidTimeNeverRejected(value) == FALSE

InvalidTime(value) == value.nan

\* newScheduledDate on the clock of the model, which counts minutes: unit m
\* adds minutes, unit h hours, every other unit seconds.
NewScheduledDate(t, value, unit) ==
    IF unit = "m" THEN t + value
    ELSE IF unit = "h" THEN t + 60 * value
    ELSE t + (value \div 60)

\* The forEach of rescheduleItemsByIds.
RescheduleUpdate(data, ids, at) ==
    [data EXCEPT !.schedule = [k \in DOMAIN @ |->
        IF @[k].id \in ids THEN [@[k] EXCEPT !.scheduledAtUTC = at, !.status = "Pending"] ELSE @[k]]]

\* The time strings of the requests; the offsets in seconds are whole minutes.
TimeUndefined == <<"undefined">>
DefaultTimeString == <<"1", "0", "m">>
TimeStrings ==
    { <<"2", "m">>, <<"1", "h">>, <<"1", "2", "0", "s">>, <<"3", "M">>, <<"6", "0", "0">>,
      <<"6", "0", "x">>, <<"m">>, <<"a", "b", "c">> }

cmdVars == <<now, publishingInProgress, publishingQueue, isQueueProcessing, missedItemsCache,
             missedItemsNotificationSent, isWorkerPaused, scan, drain, hist>>

\* The end of a call: its result is kept.
Returned(r, result) == req' = [req EXCEPT ![r].pc = "done", ![r].result = result]

\* A call of publishMissedItems(identifier) and its result.
PublishMissedReturns(r, identifier) ==
    /\ LET call == MissedCall(identifier)
       IN /\ CanDrainCall(publishingQueue \o QEntries(MissedSelection(identifier), "missed"),
                          isQueueProcessing, drain)
          /\ missedItemsCache' = MissedRemaining(identifier)
          /\ publishingQueue' = call.q
          /\ isQueueProcessing' = call.flag
          /\ drain' = call.dr
    /\ Returned(r, MissedResult(identifier))
    /\ UNCHANGED dbVars
    /\ UNCHANGED <<now, publishingInProgress, missedItemsNotificationSent, isWorkerPaused, scan, hist>>

\* publishMissedItems(identifier), the whole call.
PublishMissedCommand(r) ==
    /\ req[r].pc = "called"
    /\ req[r].op = "publishMissed"
    /\ PublishMissedReturns(r, req[r].identifier)

\* identifier.replace('-', ' ') on the strings of the model: the first
\* hyphen becomes a space.
ReplaceHyphen(str) == IF str = "all-missed" THEN "all missed" ELSE str

\* The Telegram message /publish <identifier>: handlePublishCommand calls
\* publishMissedItemsFunc with the identifier it has rewritten.
HandlePublishCommand(r) ==
    /\ req[r].pc = "called"
    /\ req[r].op = "publishCommand"
    /\ PublishMissedReturns(r, ReplaceHyphen(req[r].identifier))

\* clearMissedItemsCache, the whole call.
ClearCacheCommand(r) ==
    /\ req[r].pc = "called"
    /\ req[r].op = "clearCache"
    /\ missedItemsCache' = <<>>
    /\ missedItemsNotificationSent' = FlagAfterClear(missedItemsNotificationSent)
    /\ Returned(r, "cleared")
    /\ UNCHANGED dbVars
    /\ UNCHANGED <<now, publishingInProgress, publishingQueue, isQueueProcessing, isWorkerPaused, scan,
                   drain, hist>>

\* rescheduleMissedItem(identifier, timeString) up to the query of loadData
\* in rescheduleItemsByIds: the item is looked up in the cache.
RescheduleMissedItem(r) ==
    /\ req[r].pc = "called"
    /\ req[r].op = "rescheduleMissed"
    /\ LET k == FindTitle(missedItemsCache, req[r].identifier)
       IN IF k = 0 THEN Returned(r, "not-found")
          ELSE req' = [req EXCEPT ![r].pc = "loading", ![r].ids = {missedItemsCache[k].id}]
    /\ UNCHANGED dbVars
    /\ UNCHANGED cmdVars

\* POST action reschedule: rescheduleItemsByIds(itemIds, time) up to the
\* query of loadData; an undefined time takes the default '10m'.
RescheduleAction(r) ==
    /\ req[r].pc = "called"
    /\ req[r].op = "reschedule"
    /\ req' = [req EXCEPT ![r].pc = "loading",
                          ![r].time = IF @ = TimeUndefined THEN DefaultTimeString ELSE @]
    /\ UNCHANGED dbVars
    /\ UNCHANGED cmdVars

\* rescheduleItemsByIds after loadData: the time string is parsed and the
\* matching entries of the loaded schedule are updated.
RescheduleLoad(r) ==
    /\ req[r].pc = "loading"
    /\ \E ok \in BOOLEAN :
          LET data == LoadData(activePool, ok)
              value == ParseInt(SliceFront(req[r].time))
              unit == ToLowerCase(SliceLast(req[r].time))
              updatedCount == Cardinality({k \in DOMAIN data.schedule : data.schedule[k].id \in req[r].ids})
          IN IF InvalidTime(value) THEN Returned(r, "invalid-time")
             ELSE IF updatedCount > 0
             THEN req' = [req EXCEPT ![r].pc = "saving", ![r].publishedAtLoad = StorePublished,
                                     ![r].data = RescheduleUpdate(data, req[r].ids,
                                                                  NewScheduledDate(now, value.val, unit))]
             ELSE Returned(r, "none-found")
    /\ UNCHANGED dbVars
    /\ UNCHANGED cmdVars

\* saveData of rescheduleItemsByIds and the return of success; then, in
\* rescheduleMissedItem, the item leaves the cache and an empty cache
\* resets the notification flag.
RescheduleSave(r) ==
    /\ req[r].pc = "saving"
    /\ \E ok \in BOOLEAN : primary' = Saved(activePool, Stamped(req[r].data), ok)
    /\ Returned(r, "success")
    /\ IF req[r].op = "rescheduleMissed"
       THEN /\ missedItemsCache' = SelectSeq(missedItemsCache, LAMBDA i : i.id \notin req[r].ids)
            /\ missedItemsNotificationSent' = IF missedItemsCache' = <<>> THEN FALSE
                                              ELSE missedItemsNotificationSent
       ELSE UNCHANGED <<missedItemsCache, missedItemsNotificationSent>>
    /\ UNCHANGED <<app, env, primaryPools, backupPool, activePool, activeDbIndex, backup, sw, bk>>
    /\ UNCHANGED <<now, publishingInProgress, publishingQueue, isQueueProcessing, isWorkerPaused, scan,
                   drain, hist>>

\* rescheduleMissedItem of worker.js, after its loadData: the offset is
\* parsed, the unit must be s, m or h, the items are looked up in the
\* cache ('all' takes every entry) and those found in the loaded schedule
\* are set back to Pending; the document is saved whether or not any was
\* found.
KnownUnit(unit) == unit \in {"s", "m", "h"}

WorkerJsRescheduleMissedItem(r) ==
    /\ req[r].pc = "called"
    /\ req[r].op = "worker.rescheduleMissed"
    /\ \E ok \in BOOLEAN :
          LET data == LoadData(activePool, ok)
              value == ParseInt(SliceFront(req[r].time))
              unit == ToLowerCase(SliceLast(req[r].time))
              k == FindTitle(missedItemsCache, req[r].identifier)
              ids == IF ToLowerCase(req[r].identifier) = "all" THEN Ids(missedItemsCache)
                     ELSE IF k = 0 THEN {} ELSE {missedItemsCache[k].id}
          IN IF InvalidTime(value) THEN Returned(r, "invalid-time")
             ELSE IF ~KnownUnit(unit) THEN Returned(r, "invalid-unit")
             ELSE IF ToLowerCase(req[r].identifier) # "all" /\ k = 0 THEN Returned(r, "not-found")
             ELSE IF ids = {} THEN Returned(r, "none-found")
             ELSE req' = [req EXCEPT ![r].pc = "savingAll", ![r].ids = ids,
                                     ![r].data = RescheduleUpdate(data, ids,
                                                                  NewScheduledDate(now, value.val, unit))]
    /\ UNCHANGED dbVars
    /\ UNCHANGED cmdVars

\* Its saveData, then the items leave the cache, an empty cache resets the
\* notification flag, and success is returned.
WorkerJsRescheduleMissedSave(r) ==
    /\ req[r].pc = "savingAll"
    /\ \E ok \in BOOLEAN : primary' = Saved(activePool, Stamped(req[r].data), ok)
    /\ Returned(r, "success")
    /\ missedItemsCache' = SelectSeq(missedItemsCache, LAMBDA i : i.id \notin req[r].ids)
    /\ missedItemsNotificationSent' = IF missedItemsCache' = <<>> THEN FALSE
                                      ELSE missedItemsNotificationSent
    /\ UNCHANGED <<app, env, primaryPools, backupPool, activePool, activeDbIndex, backup, sw, bk>>
    /\ UNCHANGED <<now, publishingInProgress, publishingQueue, isQueueProcessing, isWorkerPaused, scan,
                   drain, hist>>

\* The states in which a command arrives: a cache of missed items, the
\* schedule that holds them as Failed and the other items as Pending, the
\* drain loop idle or at work on an item.
MissedAt == 0 - 6
MissedItem(id) == [MkItem(id, MissedAt) EXCEPT !.status = "Failed", !.failMessage = MissedMessage]
Caches == UNION {[1 .. n -> ItemIds] : n \in 0 .. MaxCache}
CacheOf(c) == [k \in DOMAIN c |-> MissedItem(c[k])]
ScheduleOf(c) ==
    [k \in 1 .. Cardinality(ItemIds) |->
        IF k \in {c[j] : j \in DOMAIN c} THEN MissedItem(k) ELSE MkItem(k, 3)]
BusyItem == MkItem(3, 0)
Commands ==
    {[ReqIdle EXCEPT !.pc = "called", !.op = o, !.identifier = i] :
            o \in {"publishMissed", "publishCommand"}, i \in Identifiers}
    \cup {[ReqIdle EXCEPT !.pc = "called", !.op = "clearCache"]}
    \cup {[ReqIdle EXCEPT !.pc = "called", !.op = "rescheduleMissed", !.identifier = i, !.time = t] :
            i \in Identifiers, t \in TimeStrings}
    \cup {[ReqIdle EXCEPT !.pc = "called", !.op = "worker.rescheduleMissed", !.identifier = i, !.time = t] :
            i \in Identifiers, t \in TimeStrings}
    \cup {[ReqIdle EXCEPT !.pc = "called", !.op = "reschedule", !.ids = ids, !.time = t] :
            ids \in SUBSET ItemIds, t \in TimeStrings \cup {TimeUndefined}}

InitCommands ==
    /\ app = "running"
    /\ env = [primaries |-> 1, backup |-> FALSE]
    /\ primaryPools = 1
    /\ backupPool = FALSE
    /\ activePool = 0
    /\ activeDbIndex = Num(0)
    /\ backup = NoData
    /\ sw = [p \in Switchers |-> SwIdle]
    /\ bk = BkIdle
    /\ now = 0
    /\ isWorkerPaused = FALSE
    /\ scan = [s \in Scanners |-> ScanIdle]
    /\ hist = HistIdle
    /\ \E c \in Caches :
          /\ missedItemsCache = CacheOf(c)
          /\ primary = [i \in PrimaryIds |-> IF i = 0 THEN MkDoc(ScheduleOf(c), <<>>, Num(0)) ELSE NoData]
    /\ missedItemsNotificationSent \in BOOLEAN
    /\ \E busy \in BOOLEAN, waiting \in BOOLEAN :
          /\ waiting => busy
          /\ publishingInProgress \in (IF busy THEN {{}, {BusyItem.id}} ELSE {{}})
          /\ isQueueProcessing = busy
          /\ publishingQueue = IF waiting THEN <<QEntry(MkItem(4, 0), "now")>> ELSE <<>>
          /\ drain = [d \in Drainers |->
                        IF busy /\ d = "drain1"
                        THEN [DrainIdle EXCEPT !.pc = "publishing", !.item = BusyItem, !.by = "now"]
                        ELSE DrainIdle]
    /\ \E c \in Commands : req = [r \in Requests |-> c]

NextCommands ==
    \E r \in Requests :
       \/ PublishMissedCommand(r)
       \/ HandlePublishCommand(r)
       \/ ClearCacheCommand(r)
       \/ RescheduleMissedItem(r)
       \/ RescheduleAction(r)
       \/ RescheduleLoad(r)
       \/ RescheduleSave(r)
       \/ WorkerJsRescheduleMissedItem(r)
       \/ WorkerJsRescheduleMissedSave(r)

SpecCommands == InitCommands /\ [][NextCommands]_vars

\* ========================================================================
\* THE WRITERS OF THE DOCUMENT SIDE BY SIDE
\* ========================================================================
\* The scan cycles, the publish workflows and the actions of the endpoint
\* (publish-now, reschedule) each load the document, change their copy and
\* save it whole.

\* POST /webapp/v2/action with action 'reschedule'.
RescheduleStart(r, ids, t) ==
    /\ app = "running"
    /\ req[r].pc = "idle"
    /\ hist.commands < MaxCommands
    /\ hist' = [hist EXCEPT !.commands = @ + 1]
    /\ req' = [req EXCEPT ![r] = [ReqIdle EXCEPT !.pc = "called", !.op = "reschedule", !.ids = ids, !.time = t]]
    /\ UNCHANGED dbVars
    /\ UNCHANGED <<now, publishingInProgress, publishingQueue, isQueueProcessing, missedItemsCache,
                   missedItemsNotificationSent, isWorkerPaused, scan, drain>>

\* The clock passes the grace window in one stretch.
GraceElapses ==
    /\ now < MaxTime
    /\ now' = now + GraceWindow + 1
    /\ UNCHANGED dbVars
    /\ UNCHANGED <<publishingInProgress, publishingQueue, isQueueProcessing, missedItemsCache,
                   missedItemsNotificationSent, isWorkerPaused, req, scan, drain, hist>>

WriterSchedules == { <<MkItem(1, 0), MkItem(2, 0 - 6)>> }
WriterIds == {{1}, {2}}
WriterTimes == { <<"0", "m">> }

InitWriters ==
    /\ app = "running"
    /\ env = [primaries |-> 1, backup |-> FALSE]
    /\ primaryPools = 1
    /\ backupPool = FALSE
    /\ activePool = 0
    /\ activeDbIndex = Num(0)
    /\ \E sch \in WriterSchedules :
          primary = [i \in PrimaryIds |-> IF i = 0 THEN MkDoc(sch, <<>>, Num(0)) ELSE NoData]
    /\ backup = NoData
    /\ sw = [p \in Switchers |-> SwIdle]
    /\ bk = BkIdle
    /\ SchedInitIdle

NextWriters ==
    \/ \E s \in Scanners : ScanStart(s)
    \/ \E s \in Scanners : ScanLoop(s)
    \/ \E s \in Scanners : ScanSave(s)
    \/ \E d \in Drainers : PublishFinish(d)
    \/ \E d \in Drainers : DrainUpdate(d)
    \/ \E d \in Drainers : DrainSave(d)
    \/ \E r \in Requests, ids \in PublishNowIds : PublishNowStart(r, ids)
    \/ \E r \in Requests : PublishNowQueue(r)
    \/ \E r \in Requests, ids \in WriterIds, t \in WriterTimes : RescheduleStart(r, ids, t)
    \/ \E r \in Requests : RescheduleAction(r)
    \/ \E r \in Requests : RescheduleLoad(r)
    \/ \E r \in Requests : RescheduleSave(r)
    \/ GraceElapses

SpecWriters == InitWriters /\ [][NextWriters]_vars

\* ------------------------------------------------------------------------
\* A cutover while the reschedule action writes the document.
\* ------------------------------------------------------------------------
InitCutover ==
    /\ app = "running"
    /\ env = [primaries |-> MaxPrimaries, backup |-> TRUE]
    /\ primaryPools = MaxPrimaries
    /\ backupPool = TRUE
    /\ activePool = 0
    /\ activeDbIndex = Num(0)
    /\ \E sch \in WriterSchedules :
          primary = [i \in PrimaryIds |-> IF i = 0 THEN MkDoc(sch, <<>>, Num(0)) ELSE NoData]
    /\ backup \in {NoData, MkDoc(<<MkItem(9, 0)>>, <<>>, Num(0))}
    /\ sw = [p \in Switchers |-> SwIdle]
    /\ bk = BkIdle
    /\ SchedInitIdle

NextCutover ==
    \/ \E p \in Switchers : SwitchStart(p)
    \/ \E p \in Switchers : SwM1Read(p)
    \/ \E p \in Switchers : SwM1Write(p)
    \/ \E p \in Switchers : SwM2Read(p)
    \/ \E p \in Switchers : SwM2Write(p)
    \/ \E p \in Switchers : SwWriteNext(p)
    \/ \E p \in Switchers : SwWriteBackup(p)
    \/ \E p \in Switchers : SwFlip(p)
    \/ \E r \in Requests, ids \in WriterIds, t \in WriterTimes : RescheduleStart(r, ids, t)
    \/ \E r \in Requests : RescheduleAction(r)
    \/ \E r \in Requests : RescheduleLoad(r)
    \/ \E r \in Requests : RescheduleSave(r)

SpecCutover == InitCutover /\ [][NextCutover]_vars


\* ========================================================================
\* PROPERTIES OF THE SCHEDULING ENGINE AND THE PUBLISH QUEUE
\* ========================================================================
\* C1 - Global single-flight: at most one publish workflow is executing.
SingleFlight == Cardinality({d \in Drainers : InFlight(d)}) <= 1

\* A publish is in flight while more entries wait: a call of
\* processPublishingQueue made meanwhile returned at once.
SingleFlightContended ==
    \E d \in Drainers : InFlight(d) /\ isQueueProcessing /\ Len(publishingQueue) > 0

\* C2 (as stated) - At-most-one-in-flight per item: an entry queued by a
\* scan cycle keeps its id in publishingInProgress until its workflow
\* completes, and a scan cycle never queues an item whose id has been in
\* publishingInProgress since that cycle loaded its data.
ScanQueuedInProgress ==
    /\ \A k \in DOMAIN publishingQueue :
          publishingQueue[k].by = "scan" => publishingQueue[k].item.id \in publishingInProgress
    /\ \A d \in Drainers :
          (InFlight(d) /\ drain[d].by = "scan") => drain[d].item.id \in publishingInProgress

AtMostOnceInFlight ==
    [][/\ ScanQueuedInProgress'
       /\ \A s \in Scanners :
             (scan[s].pc = "loaded" /\ scan'[s].pc # "loaded") =>
                 (publishingInProgress' \ publishingInProgress) \cap scan[s].seen = {}]_vars

\* C3 (as stated) - Queue drains fully despite failures: when the drain
\* loop finishes, publishingQueue is empty and every item it popped has a
\* terminal persisted status (Published or Failed), none is left Pending.
TerminalIn(doc, id) ==
    /\ id \in Ids(doc.schedule) \cup Ids(doc.recentlyPublished)
    /\ \A k \in DOMAIN doc.schedule : doc.schedule[k].id = id => doc.schedule[k].status = "Failed"
    /\ \A k \in DOMAIN doc.recentlyPublished :
          doc.recentlyPublished[k].id = id => doc.recentlyPublished[k].status = "Published"

DrainLeavesTerminal ==
    [][(isQueueProcessing /\ ~isQueueProcessing') =>
          /\ publishingQueue' = <<>>
          /\ \A id \in hist.batch : TerminalIn(primary'[0], id)]_vars

\* C4 - Isolation in the drain loop: when the workflow of an item throws,
\* the loop goes on with the head of the queue (or ends, the queue being
\* empty), and whenever an iteration ends, however it ended, the id of its
\* item is no longer in publishingInProgress.
IterationEnds(d) ==
    /\ InFlight(d)
    /\ \/ drain'[d].pc = "idle"
       \/ /\ drain'[d].pc = "publishing"
          /\ Len(publishingQueue) > 0
          /\ publishingQueue' = Tail(publishingQueue)

DrainIsolation ==
    [][\A d \in Drainers :
          /\ (drain[d].pc = "publishing" /\ IterationEnds(d)) =>
                IF Len(publishingQueue) > 0
                THEN /\ drain'[d].pc = "publishing"
                     /\ drain'[d].item = Head(publishingQueue).item
                     /\ isQueueProcessing'
                ELSE /\ drain'[d].pc = "idle"
                     /\ ~isQueueProcessing'
          /\ IterationEnds(d) => drain[d].item.id \notin publishingInProgress']_vars

\* The workflow of one item threw and the loop is publishing the next one.
DrainWentOnAfterThrow ==
    \E d \in Drainers : drain[d].pc = "publishing" /\ drain[d].prev = "threw"

\* C10 (as stated) - Missed detection idempotence: after any number of scan
\* cycles, overlapping or not, and no operator command, missedItemsCache
\* holds no two entries with the same id.
NoDuplicateMissed ==
    hist.commands = 0 =>
        \A j, k \in DOMAIN missedItemsCache :
            j # k => missedItemsCache[j].id # missedItemsCache[k].id

\* ========================================================================
\* PROPERTIES OF THE PUBLISH WORKFLOW AND OF THE SCAN CYCLE
\* ========================================================================
PublishedFirst(doc, id) ==
    /\ id \notin Ids(doc.schedule)
    /\ Len(doc.recentlyPublished) > 0
    /\ doc.recentlyPublished[1].id = id
    /\ doc.recentlyPublished[1].status = "Published"
    /\ doc.recentlyPublished[1].publishedAtUTC # NoTime

\* The workflow of an item queued by a scan cycle ends in this step, the
\* executor having returned success.
SuccessEnds(d) ==
    /\ drain[d].pc \in {"loaded", "saving"}
    /\ drain[d].by = "scan"
    /\ drain[d].result = "success"
    /\ IterationEnds(d)

SuccessOutcome(d) ==
    /\ PublishedFirst(primary'[0], drain[d].item.id)
    /\ drain[d].note = WorkflowNotification("success", drain[d].item.id)
    /\ drain[d].item.id \notin publishingInProgress'

\* C15 (as stated) - Success path: when the workflow of a due item queued
\* by a scan cycle ends after the executor returned success, the persisted
\* document no longer has the item in schedule and has it at
\* recentlyPublished[0] with status Published and a publishedAtUTC, the
\* success notification was sent and the id has left publishingInProgress.
SuccessPath ==
    [][\A d \in Drainers : SuccessEnds(d) => SuccessOutcome(d)]_vars

\* The workflow of an item ends in this step, the executor having returned
\* failed.
FailureEnds(d) ==
    /\ drain[d].pc \in {"loaded", "saving"}
    /\ drain[d].result = "failed"
    /\ IterationEnds(d)

StoredFailed(doc, id, message) ==
    \E k \in DOMAIN doc.schedule :
       /\ doc.schedule[k].id = id
       /\ doc.schedule[k].status = "Failed"
       /\ doc.schedule[k].failMessage = message

FailureOutcome(d) ==
    /\ StoredFailed(primary'[0], drain[d].item.id, ResultMessage("failed"))
    /\ drain[d].item.id \in Ids(primary'[0].recentlyPublished)
          => drain[d].item.id \in Ids(primary[0].recentlyPublished)
    /\ drain[d].note = WorkflowNotification("failed", drain[d].item.id)

\* C27 (as stated) - Failure path: when the executor returns failed for an
\* item (a failed login check included), the persisted item stays in
\* schedule with status Failed and failMessage equal to the returned
\* message, it is not added to recentlyPublished and a failure notification
\* is emitted.
FailurePath ==
    [][\A d \in Drainers : FailureEnds(d) => FailureOutcome(d)]_vars

StoredFailedMissed(doc, id) ==
    \E k \in DOMAIN doc.schedule :
        /\ doc.schedule[k].id = id
        /\ doc.schedule[k].status = "Failed"
        /\ doc.schedule[k].failMessage = MissedMessage

\* The loop of a scan cycle runs in this step: every late Pending item
\* whose id is neither cached nor in progress is marked, no item in
\* progress is marked, and no marked item is appended to publishingQueue.
MissedMarking(s) ==
    LET marked == IF scan'[s].pc = "saving" THEN Ids(scan'[s].newlyMissed) ELSE {}
        late == {k \in DOMAIN scan[s].data.schedule :
                   /\ scan[s].data.schedule[k].status = "Pending"
                   /\ IsMissed(scan[s].data.schedule[k].scheduledAtUTC, scan[s].now)}
    IN (scan[s].pc = "loaded" /\ scan'[s].pc # "loaded") =>
          /\ \A k \in late :
                LET id == scan[s].data.schedule[k].id IN
                (id \notin Ids(missedItemsCache) /\ id \notin publishingInProgress) => id \in marked
          /\ marked \cap publishingInProgress = {}
          /\ scan'[s].pc = "saving" =>
                \A j \in (Len(publishingQueue) + 1) .. Len(publishingQueue') :
                    publishingQueue'[j].item.id \notin marked

\* The cycle that marked items ends in this step.
MissedOutcome(s) ==
    \A k \in DOMAIN scan[s].newlyMissed :
        /\ StoredFailedMissed(primary'[0], scan[s].newlyMissed[k].id)
        /\ scan[s].newlyMissed[k].id \in Ids(missedItemsCache')

\* C16 (as stated) - Missed path: a scan cycle that finds a Pending item
\* past the grace window, neither cached nor in progress, leaves the
\* persisted item Failed with the fixed message and the item in
\* missedItemsCache, and does not queue it; an item in progress is never
\* marked missed.
MissedPath ==
    [][\A s \in Scanners :
          /\ MissedMarking(s)
          /\ (scan[s].pc = "saving" /\ scan'[s].pc = "idle") => MissedOutcome(s)]_vars

\* What the loop of a scan cycle, run in this step by s, does with the
\* k-th item of its schedule.
LoopRuns(s) == scan[s].pc = "loaded" /\ scan'[s].pc # "loaded"
QueuedByLoop(s, k) ==
    scan[s].data.schedule[k].id \in publishingInProgress' \ publishingInProgress
MarkedByLoop(s, k) ==
    /\ scan'[s].pc = "saving"
    /\ scan[s].data.schedule[k].id \in Ids(scan'[s].newlyMissed)
Age(s, k) == scan[s].now - scan[s].data.schedule[k].scheduledAtUTC

\* Acts on the item as on a future or skipped item, as on a due item, as
\* on a missed item.
ActsAsNone(s, k) == ~QueuedByLoop(s, k) /\ ~MarkedByLoop(s, k)
ActsAsDue(s, k) ==
    /\ ~MarkedByLoop(s, k)
    /\ scan[s].data.schedule[k].id \notin publishingInProgress => QueuedByLoop(s, k)
ActsAsMissed(s, k) ==
    /\ ~QueuedByLoop(s, k)
    /\ (/\ scan[s].data.schedule[k].id \notin Ids(missedItemsCache)
        /\ scan[s].data.schedule[k].id \notin publishingInProgress) => MarkedByLoop(s, k)

\* C17 (as stated) - Classification by the 5-minute grace window: an item
\* that is not Pending is skipped; a Pending item is future when its time
\* is after now, due when its time is at or before now and its age is less
\* than 5 minutes, missed when its age is 5 minutes or more.
GraceClassification ==
    [][\A s \in Scanners : LoopRuns(s) =>
          \A k \in DOMAIN scan[s].data.schedule :
              IF scan[s].data.schedule[k].status # "Pending" \/ Age(s, k) < 0 THEN ActsAsNone(s, k)
              ELSE IF Age(s, k) < 5 THEN ActsAsDue(s, k)
              ELSE ActsAsMissed(s, k)]_vars

\* C17 (amended) - the same with the boundary on the other side: due when
\* the age is at most 5 minutes, missed when it is more than 5 minutes.
GraceClassificationStrict ==
    [][\A s \in Scanners : LoopRuns(s) =>
          \A k \in DOMAIN scan[s].data.schedule :
              IF scan[s].data.schedule[k].status # "Pending" \/ Age(s, k) < 0 THEN ActsAsNone(s, k)
              ELSE IF Age(s, k) <= 5 THEN ActsAsDue(s, k)
              ELSE ActsAsMissed(s, k)]_vars

\* An item exactly 5 minutes late was queued by a scan cycle and is being
\* published.
BoundaryItemQueued ==
    \E d \in Drainers :
        InFlight(d) /\ drain[d].by = "scan" /\ drain[d].item.scheduledAtUTC = now - 5

\* C25 (as stated) - publishingInProgress is exactly the set of ids of the
\* items that are in publishingQueue or being published: in every reachable
\* state an id is in the set if and only if an item with that id is queued
\* or in flight, whichever operation enqueued it.
InProgressExact == publishingInProgress = QueueIds \cup InFlightIds

\* ========================================================================
\* PROPERTIES OF THE MISSED-ITEM CACHE AND ITS NOTIFIER
\* ========================================================================
\* C11 - Notification debounce: between two consecutive resets (a call of
\* clearMissedItemsCache, or a command that empties the cache) the scan
\* cycles send at most one missed-items alert, however many of them run
\* while the cache is non-empty.
AlertDebounce == hist.alerts <= 1

\* One alert was sent and a later cycle, ending with a non-empty cache,
\* sent none.
AlertDebounced == hist.alerts = 1 /\ hist.quiet

\* C12 (as stated) - whenever missedItemsCache is empty,
\* missedItemsNotificationSent is false, whichever operation emptied it.
FlagResetWhenCacheEmpty == missedItemsCache = <<>> => ~missedItemsNotificationSent

\* C13 (as stated) - Every missed item is announced: an alert is sent only
\* at the end of a scan cycle and names the whole cache, so every item a
\* cycle has added to missedItemsCache is named by an alert when that cycle
\* ends, also when the cache held earlier items or an earlier incident
\* was resolved with publishMissedItems.
EveryMissedItemNamed == Ids(missedItemsCache) \subseteq hist.named

\* ========================================================================
\* PROPERTIES OF THE OPERATOR COMMANDS ON THE MISSED CACHE
\* ========================================================================
Returns(r) == req[r].pc # "done" /\ req'[r].pc = "done"
QueueItems == [k \in DOMAIN publishingQueue |-> publishingQueue[k].item]

\* The items publishingQueue has received when the call returns: the head
\* that the drain loop, started by the call, has shifted at once, then the
\* queue.
QueueItemsHanded ==
    LET started == {d \in Drainers : drain[d].pc = "idle" /\ drain'[d].pc = "publishing"} IN
    (IF started = {} THEN <<>> ELSE <<drain'[CHOOSE d \in started : TRUE].item>>)
    \o [k \in DOMAIN publishingQueue' |-> publishingQueue'[k].item]

TitleHits(identifier) ==
    {k \in DOMAIN missedItemsCache : ToLowerCase(missedItemsCache[k].title) = ToLowerCase(identifier)}

PublishMissedOutcome(r) ==
    LET identifier == req[r].identifier
        hits == TitleHits(identifier)
    IN IF identifier = "all-missed"
       THEN /\ QueueItemsHanded = QueueItems \o missedItemsCache
            /\ missedItemsCache' = <<>>
       ELSE IF hits # {}
       THEN LET k == CHOOSE x \in hits : \A y \in hits : x <= y IN
            /\ QueueItemsHanded = QueueItems \o <<missedItemsCache[k]>>
            /\ missedItemsCache' = RemoveAt(missedItemsCache, k)
            /\ Len(missedItemsCache') = Len(missedItemsCache) - 1
            /\ req'[r].result = "queued"
       ELSE /\ req'[r].result = "not-found"
            /\ missedItemsCache' = missedItemsCache
            /\ publishingQueue' = publishingQueue
            /\ drain' = drain

\* C20 - publishMissedItems contract: with identifier all-missed every cached
\* item is appended to publishingQueue in cache order and the cache becomes
\* empty; with any other identifier exactly the first cached item whose title
\* equals it case-insensitively is moved; when no title matches, the call
\* returns a not-found failure and leaves cache and queue unchanged.  (An
\* item the drain loop takes from the head of the queue within the call
\* counts as appended.)
PublishMissedContract ==
    [][\A r \in Requests : (req[r].op = "publishMissed" /\ Returns(r)) => PublishMissedOutcome(r)]_vars

\* A title given in another case has moved its item out of a longer cache.
TitleMatchedIgnoringCase ==
    \E r \in Requests :
       /\ req[r].pc = "done" /\ req[r].op = "publishMissed"
       /\ req[r].identifier = "SUNSET" /\ req[r].result = "queued"
       /\ Len(missedItemsCache) = 2
       /\ \E d \in Drainers : drain[d].pc = "publishing" /\ drain[d].item.id = 1

RescheduledAt(r) ==
    NewScheduledDate(now, ParseInt(SliceFront(req[r].time)).val, ToLowerCase(SliceLast(req[r].time)))

PersistedRescheduled(doc, id, at) ==
    \E k \in DOMAIN doc.schedule :
       /\ doc.schedule[k].id = id
       /\ doc.schedule[k].scheduledAtUTC = at
       /\ doc.schedule[k].status = "Pending"

RescheduleOutcome(r) ==
    \A id \in req[r].ids :
       /\ PersistedRescheduled(primary'[activePool], id, RescheduledAt(r))
       /\ id \notin Ids(missedItemsCache')
       /\ missedItemsCache' = <<>> => ~missedItemsNotificationSent'

\* C18 (as stated) - rescheduleMissedItem success is real: whenever
\* rescheduleMissedItem returns success for an item of the missed cache, the
\* persisted schedule entry of that item has scheduledAtUTC = now + offset
\* and status Pending, the item is no longer in missedItemsCache and
\* missedItemsNotificationSent is false if the cache became empty, also
\* when the load or the save of the data store fails.
RescheduleSuccessReal ==
    [][\A r \in Requests :
          (req[r].op = "rescheduleMissed" /\ Returns(r) /\ req'[r].result = "success")
              => RescheduleOutcome(r)]_vars

\* The offset is an integer followed by one of s, m, h.
WellFormedOffset(time) ==
    /\ Len(time) >= 2
    /\ ToLowerCase(time[Len(time)]) \in {"s", "m", "h"}
    /\ \A k \in 1 .. (Len(time) - 1) : time[k] \in Digits

Rescheduling(r) == req[r].op \in {"rescheduleMissed", "reschedule"} /\ req[r].pc \in {"loading", "saving"}

RejectedUnchanged(r) ==
    /\ UNCHANGED <<primary, missedItemsCache, missedItemsNotificationSent>>
    /\ req'[r].pc = "done" => req'[r].result # "success"

PublishAllMissedCommand ==
    [][\A r \in Requests :
          (req[r].op = "publishCommand" /\ req[r].identifier = "all-missed" /\ Returns(r)
             /\ missedItemsCache # <<>>)
              => (/\ req'[r].result = "queued"
                  /\ QueueItemsHanded = QueueItems \o missedItemsCache
                  /\ missedItemsCache' = <<>>)]_vars

\* C22 - clearMissedItemsCache always leaves missedItemsCache empty and
\* missedItemsNotificationSent false, whatever their prior values, and
\* changes nothing else: publishingQueue, publishingInProgress,
\* isQueueProcessing and the persisted document are unchanged.
ClearCacheFrame ==
    [][\A r \in Requests :
          (req[r].op = "clearCache" /\ Returns(r))
              => (/\ missedItemsCache' = <<>>
                  /\ ~missedItemsNotificationSent'
                  /\ UNCHANGED <<publishingQueue, publishingInProgress, isQueueProcessing, primary, backup,
                                 drain>>)]_vars

\* The cache was cleared while an alert was out and the drain loop was at
\* work with an item waiting.
ClearedWhileBusy ==
    \E r \in Requests :
       /\ req[r].pc = "done" /\ req[r].op = "clearCache"
       /\ missedItemsCache = <<>> /\ ~missedItemsNotificationSent
       /\ isQueueProcessing /\ Len(publishingQueue) = 1 /\ publishingInProgress # {}

\* ========================================================================
\* THE HISTORY OF PUBLISHED ITEMS
\* ========================================================================
\* A schedule of n Pending items, nothing published yet.
PendingBatch(n) == [k \in 1 .. n |-> MkItem(k, 0 - k)]

InitHistory ==
    /\ app = "running"
    /\ env = [primaries |-> 1, backup |-> FALSE]
    /\ primaryPools = 1
    /\ backupPool = FALSE
    /\ activePool = 0
    /\ activeDbIndex = Num(0)
    /\ \E n \in 1 .. MaxBatch :
          primary = [i \in PrimaryIds |-> IF i = 0 THEN MkDoc(PendingBatch(n), <<>>, Num(0)) ELSE NoData]
    /\ backup = NoData
    /\ sw = [p \in Switchers |-> SwIdle]
    /\ bk = BkIdle
    /\ SchedInitIdle

\* executePublishWorkflow run to its end for the first Pending item of the
\* schedule, the executor having returned success: loadData, the update of
\* the document, saveData.  Items are published one after the other.
PublishSequentially ==
    /\ app = "running"
    /\ LET data == LoadData(activePool, TRUE)
           pending == {k \in DOMAIN data.schedule : data.schedule[k].status = "Pending"}
       IN /\ pending # {}
          /\ LET k == IndexOfId(data.schedule, data.schedule[CHOOSE j \in pending : \A i \in pending : j <= i].id)
             IN /\ primary' = Saved(activePool, Stamped(WorkflowUpdate(data, k, "success", now)), TRUE)
                /\ hist' = [hist EXCEPT !.published = <<data.schedule[k].id>> \o @]
    /\ UNCHANGED <<app, env, primaryPools, backupPool, activePool, activeDbIndex, backup, sw, bk>>
    /\ UNCHANGED <<now, publishingInProgress, publishingQueue, isQueueProcessing, missedItemsCache,
                   missedItemsNotificationSent, isWorkerPaused, req, scan, drain>>

SpecHistory == InitHistory /\ [][PublishSequentially]_vars

SwFinished(p) == sw[p].pc \in {"idle", "done", "failed"}

\* C5 - Cutover atomicity: when a switchDatabase call has ended in failure
\* (and no other call assigned the pointer meanwhile), activeDbIndex and
\* activePool have the values they had when the call started.
CutoverAtomicity ==
    \A p \in Switchers :
        (sw[p].pc = "failed" /\ ~sw[p].disturbed) =>
            (activeDbIndex = sw[p].entryIdx /\ activePool = sw[p].src)

\* The stamped write to the new primary succeeded, the one to the backup failed.
CutoverBackupWriteFailed ==
    \E p \in Switchers :
        sw[p].pc = "failed" /\ sw[p].failedAt = "w2" /\ sw[p].wroteNext /\ ~sw[p].disturbed

InsufficientTopologyNoChange ==
    [][(app = "running" /\ (~backupPool \/ primaryPools < 2)) =>
          /\ \A p \in Switchers : sw'[p].pc \in {"idle", "failed"}
          /\ \A p \in Switchers :
                sw'[p] # sw[p] =>
                   /\ sw'[p].failedAt = "topology"
                   /\ UNCHANGED <<activeDbIndex, activePool, primary, backup>>]_vars

\* switchDatabase was refused with one primary and a backup configured.
SwitchRefusedOnePrimary ==
    \E p \in Switchers :
        sw[p].pc = "failed" /\ sw[p].failedAt = "topology" /\ backupPool /\ primaryPools = 1

\* C8 (as stated) - Reconciliation on restart: when the backup is read and
\* its active_index k is a valid primary index other than 0, the process
\* adopts k; in every other case the active index stays 0.
ValidPrimaryIndex(v, len) == IsInt(v) /\ IntOf(v) >= 0 /\ IntOf(v) < len

ReconciliationAdoptsOnlyValid ==
    [][(app = "initialized" /\ app' = "running") =>
          IF hist'.backupRead = "ok" /\ backup.present
             /\ ValidPrimaryIndex(backup.active_index, primaryPools)
          THEN /\ activeDbIndex' = backup.active_index
               /\ activePool' = IntOf(backup.active_index)
          ELSE /\ activeDbIndex' = Num(0)
               /\ activePool' = 0]_vars

\* C9 (as stated) - Restart recovers the cut-over backend: in every
\* quiescent state after a successful switchDatabase the backup's
\* active_index equals the in-memory activeDbIndex.
Quiescent == (\A p \in Switchers : SwFinished(p)) /\ bk.pc = "idle"

BackupIndexMatchesActive ==
    (Quiescent /\ \E p \in Switchers : sw[p].pc = "done") =>
        (backup.present /\ backup.active_index = activeDbIndex)

\* C26 (as stated) - db_config.active_index of every persisted document
\* reflects the backend the document was last written through: after any
\* sequence of saveData calls and successful or aborted switchDatabase runs,
\* the document stored in primary i carries active_index equal to i.  (The
\* documents found at start carry their own index, so only a write of this
\* process can break the equality.)
ActiveIndexReflectsBackend ==
    Quiescent => \A i \in PrimaryIds : primary[i].present => primary[i].active_index = Num(i)

Succeeds(p) == sw[p].pc # "done" /\ sw'[p].pc = "done"

CutoverOutcome(p) ==
    /\ IsInt(sw[p].entryIdx)
    /\ activeDbIndex' = Num((IntOf(sw[p].entryIdx) + 1) % primaryPools)
    /\ activePool' = IntOf(activeDbIndex')
    /\ primary'[activePool'] = backup'
    /\ backup'.present
    /\ backup'.active_index = activeDbIndex'
    /\ sw[p].entryDoc.present
    /\ backup' = [sw[p].entryDoc EXCEPT !.active_index = activeDbIndex']

\* C30 (as stated) - Successful cutover: when switchDatabase succeeds with N
\* primaries, the new activeDbIndex is (old activeDbIndex + 1) mod N,
\* activePool is that primary, and the new primary and the backup hold the
\* same document, whose active_index is the new index and whose remaining
\* content is that of the old active primary's document when the cutover
\* started.
SuccessfulCutover ==
    [][\A p \in Switchers : Succeeds(p) => CutoverOutcome(p)]_vars

\* ========================================================================
\* PROPERTIES OF THE PAUSE SWITCH AND OF THE IDLE CYCLES
\* ========================================================================
CycleCounted == hist'.scans = hist.scans + 1

\* While items wait on a paused worker the drain loop is at work, or a scan
\* cycle that has pushed them is about to start it.
LoopAliveNext ==
    (isWorkerPaused' /\ Len(publishingQueue') > 0)
        => \/ isQueueProcessing' /\ \E d \in Drainers : drain'[d].pc # "idle"
           \/ \E s \in Scanners : scan'[s].pc = "saving"

\* A cycle counted on the paused worker changes nothing and sends nothing;
\* the call of pauseWorker changes nothing but the switch.
PauseFrame ==
    /\ (CycleCounted /\ isWorkerPaused)
         => /\ UNCHANGED <<primary, backup, publishingQueue, publishingInProgress, missedItemsCache,
                           missedItemsNotificationSent, isQueueProcessing, scan, drain>>
            /\ hist'.alerts = hist.alerts
    /\ (~isWorkerPaused /\ isWorkerPaused')
         => UNCHANGED <<primary, backup, publishingQueue, publishingInProgress, missedItemsCache,
                        missedItemsNotificationSent, isQueueProcessing, scan, drain>>
    /\ LoopAliveNext

\* C23 - Pause: a scan cycle that starts while the worker is paused is a
\* no-op (it changes neither the persisted document nor publishingQueue,
\* publishingInProgress, missedItemsCache or the notification flag and sends
\* no notification), and pausing cancels nothing that is running: the call
\* of pauseWorker leaves the queue, the in-flight publish and the cycles
\* under way as they are, and while items wait on a paused worker the drain
\* loop keeps running, so that each of them is attempted in the end.
PauseIsNoOp ==
    /\ \A id \in ItemIds : (isWorkerPaused /\ id \in QueueIds) ~> (id \in InFlightIds)
    /\ [][PauseFrame]_vars

\* A cycle was skipped on the paused worker and an item that was queued
\* when the worker was paused is being published.
PausedDrainContinues ==
    /\ isWorkerPaused
    /\ hist.skipped > 0
    /\ \E d \in Drainers : drain[d].pc = "publishing" /\ drain[d].item.id \in hist.pausedQueue

\* C24 - StoreUnavailable: a scan cycle whose load fails raises nothing and
\* acts as if no item were due: it ends at once (no cycle goes on with a
\* failed load), publishingQueue, publishingInProgress, missedItemsCache and
\* missedItemsNotificationSent are unchanged and nothing is written to the
\* store, so that a later cycle finds the items as they were.
StoreUnavailableNoOp ==
    [][/\ \A s \in Scanners : scan'[s].ok
       /\ (CycleCounted /\ scan' = scan /\ ~isWorkerPaused)
            => UNCHANGED <<primary, backup, publishingQueue, publishingInProgress, missedItemsCache,
                           missedItemsNotificationSent, isQueueProcessing, drain>>]_vars

\* The load of the first cycle failed; the second cycle has queued an item.
LaterCycleQueued ==
    /\ hist.failedAt = 1
    /\ hist.scans = 2
    /\ \E d \in Drainers : drain[d].pc = "publishing" /\ drain[d].by = "scan"

\* ========================================================================
\* PROPERTIES OF THE DRAIN LOOP
\* ========================================================================
Prefix(a, b) == Len(a) <= Len(b) /\ SubSeq(b, 1, Len(a)) = a

\* The drain loop goes on to the head of the queue.
HeadTaken ==
    /\ Len(publishingQueue) > 0
    /\ publishingQueue' = Tail(publishingQueue)
    /\ \E d \in Drainers :
          /\ drain[d].pc # "idle"
          /\ drain'[d].pc = "publishing"
          /\ drain'[d].item = Head(publishingQueue).item

\* Items are appended at the tail; an attempt starts only when the call
\* that appended starts the idle loop, and then with the head.
TailAppended ==
    /\ Prefix(QueueItems, QueueItemsHanded)
    /\ \A d \in Drainers : (drain[d].pc # "idle" /\ drain'[d].pc = "publishing") => drain'[d] = drain[d]

\* The items a scan cycle appends are in the order of its schedule.
ScanOrder(s) ==
    (scan[s].pc = "loaded" /\ scan'[s].pc # "loaded")
        => LET added == SubSeq(QueueItemsHanded, Len(QueueItems) + 1, Len(QueueItemsHanded)) IN
           \A i, j \in DOMAIN added :
              i < j => IndexOfId(scan[s].data.schedule, added[i].id)
                          < IndexOfId(scan[s].data.schedule, added[j].id)

\* C28 - FIFO order: publish attempts start in the order in which the items
\* were appended to publishingQueue (every step appends at the tail or
\* starts the attempt of the head), and the due items found by one scan
\* cycle are appended in the order they have in schedule.
FifoOrder ==
    [][(HeadTaken \/ TailAppended) /\ \A s \in Scanners : ScanOrder(s)]_vars

\* One scan cycle found both items due: the first of the schedule is being
\* published, the second waits.
TwoDueInScheduleOrder ==
    /\ Len(publishingQueue) = 1
    /\ publishingQueue[1].item.id = 2 /\ publishingQueue[1].by = "scan"
    /\ \E d \in Drainers : drain[d].pc = "publishing" /\ drain[d].item.id = 1 /\ drain[d].by = "scan"

\* C29 - Drain liveness: every publish attempt ending, every item appended
\* to publishingQueue is eventually popped and attempted, isQueueProcessing
\* becomes false only when publishingQueue is empty, and no item stays
\* queued forever while isQueueProcessing is false.
DrainLiveness ==
    /\ \A id \in ItemIds : (id \in QueueIds) ~> (id \in InFlightIds)
    /\ [][(isQueueProcessing /\ ~isQueueProcessing') => publishingQueue' = <<>>]_vars
    /\ (Len(publishingQueue) > 0 /\ ~isQueueProcessing) ~> (Len(publishingQueue) = 0 \/ isQueueProcessing)

\* An item that publishMissedItems appended behind another one is attempted
\* after that one has ended.
QueuedItemAttempted ==
    \E d \in Drainers : drain[d].pc = "publishing" /\ drain[d].by = "missed" /\ drain[d].prev # "none"

\* ========================================================================
\* PROPERTIES THE DESIGN RELIES ON
\* ========================================================================
\* C31 (as stated) - Exactly one valid primary is active: in every state
\* after start-up activeDbIndex is an integer with 0 <= activeDbIndex <
\* number of primaries and activePool is primaryPools[activeDbIndex],
\* whatever db_config.active_index the backup document holds at
\* reconciliation.
OneValidPrimaryActive ==
    app = "running" =>
        /\ ValidPrimaryIndex(activeDbIndex, primaryPools)
        /\ activePool = IntOf(activeDbIndex)

\* C32 (as stated) - No duplicate work in the queue: no item id occurs more
\* than once among the entries of publishingQueue together with the items
\* being published, under any interleaving of scan cycles with
\* publishMissedItems and publish-now requests.
WorkCount(id) ==
    Cardinality({k \in DOMAIN publishingQueue : publishingQueue[k].item.id = id})
    + Cardinality({d \in Drainers : InFlight(d) /\ drain[d].item.id = id})

NoDuplicateWork == \A id \in ItemIds : WorkCount(id) <= 1

\* A publish attempt starts.
AttemptStarts(d) == drain'[d].pc = "publishing" /\ drain'[d] # drain[d]

\* C33 (as stated) - An item for which the executor returned success is
\* never handed to the executor again: no scan cycle or drain iteration
\* starts another publish attempt for it, also when the load or the save
\* that records the result fails.
PublishedAtMostOnce ==
    [][\A d \in Drainers : AttemptStarts(d) => drain'[d].item.id \notin hist.succeeded]_vars

StoredSchedule == IF primary[0].present THEN Ids(primary[0].schedule) ELSE {}

\* A save that keeps out of schedule the items that the writer found
\* published when it loaded and that still are.
KeepsPublished(atLoad) == \A id \in atLoad \cap StorePublished : id \notin StoredSchedule'

\* C34 (as stated) - A published item stays published: once an item has
\* been written to recentlyPublished and removed from schedule, no later
\* write by a scan cycle, reschedule or publish workflow puts it back into
\* the persisted schedule.
PublishedStaysPublished ==
    [][\A id \in StorePublished : id \notin StoredSchedule']_vars

\* C34 (amended) - Once an item has been written to recentlyPublished and
\* removed from schedule, no later write by a scan cycle, reschedule or
\* publish workflow that loaded the document after that puts the item back
\* into the persisted schedule.
PublishedKeptByLaterLoads ==
    [][/\ \A s \in Scanners : (scan[s].pc = "saving" /\ scan'[s].pc # "saving")
                                    => KeepsPublished(scan[s].publishedAtLoad)
       /\ \A d \in Drainers : (drain[d].pc = "saving" /\ drain'[d] # drain[d])
                                    => KeepsPublished(drain[d].publishedAtLoad)
       /\ \A r \in Requests : (req[r].pc = "saving" /\ req'[r].pc # "saving")
                                    => KeepsPublished(req[r].publishedAtLoad)]_vars

\* The workflow of item 2 loaded the document after item 1 had been
\* published and has written its own result in front of it.
WrittenAfterPublish ==
    /\ primary[0].present
    /\ Len(primary[0].recentlyPublished) = 2
    /\ primary[0].recentlyPublished[1].id = 2
    /\ primary[0].recentlyPublished[2].id = 1
    /\ StoredSchedule = {}

NoIdTwice(seq) == \A i, j \in DOMAIN seq : seq[i].id = seq[j].id => i = j

\* C35 - schedule and recentlyPublished are disjoint and duplicate-free by
\* id: the initial document having unique ids and no id in both lists,
\* every version of the document the worker writes has no id in both
\* schedule and recentlyPublished and no id twice in recentlyPublished,
\* also when concurrent writers overwrite each other.
ListsDisjoint ==
    \A i \in PrimaryIds :
        primary[i].present =>
            /\ Ids(primary[i].schedule) \cap Ids(primary[i].recentlyPublished) = {}
            /\ NoIdTwice(primary[i].recentlyPublished)

\* The stored version has item 1 published and item 2 marked as missed,
\* and item 1, queued twice, is handed to the executor a second time.
PublishedBesideMissed ==
    /\ primary[0].present
    /\ Ids(primary[0].recentlyPublished) = {1}
    /\ \E k \in DOMAIN primary[0].schedule :
          primary[0].schedule[k].id = 2 /\ primary[0].schedule[k].status = "Failed"
    /\ \E d \in Drainers : drain[d].pc = "publishing" /\ drain[d].item.id = 1 /\ 1 \in hist.succeeded

\* C36 (as stated) - The missed cache only holds unresolved items: each
\* entry of missedItemsCache is an item of the persisted schedule with
\* status Failed that is neither in publishingQueue nor being published;
\* an item rescheduled or published through the reschedule or publish-now
\* actions does not remain in the cache.
CacheHoldsUnresolved ==
    \A c \in DOMAIN missedItemsCache :
        LET id == missedItemsCache[c].id IN
        /\ primary[0].present
        /\ \E k \in DOMAIN primary[0].schedule :
              primary[0].schedule[k].id = id /\ primary[0].schedule[k].status = "Failed"
        /\ id \notin QueueIds \cup InFlightIds

\* The saveData of the reschedule action has completed against the active
\* primary, which holds what it wrote.
SaveCompleted(r) ==
    /\ req[r].pc = "done" /\ req[r].result = "success"
    /\ activePool # NoPool
    /\ primary[activePool].present
    /\ primary[activePool].schedule = req[r].data.schedule

\* C37 (as stated) - No acknowledged write is lost by a cutover: every
\* saveData that completed against the old active primary before
\* switchDatabase flipped the active pointer is in the document of the new
\* active primary after the flip, however the cutover and the writer
\* interleave.
NoWriteLostByCutover ==
    [][\A p \in Switchers, r \in Requests :
          (Succeeds(p) /\ SaveCompleted(r)) =>
              /\ activePool' # NoPool
              /\ primary'[activePool'].present
              /\ primary'[activePool'].schedule = req[r].data.schedule]_vars

DefaultLists(doc) == doc.schedule = <<>> /\ doc.recentlyPublished = <<>>

\* C38 (as stated) - A failed load never destroys stored data: no operation
\* saves the default empty document that loadData returns on a failure
\* over the stored one, and no operation reports success for an item it
\* did not find in the schedule it loaded.
FailedLoadHarmless ==
    [][/\ \A i \in PrimaryIds :
             (primary[i].present /\ ~DefaultLists(primary[i])) => ~DefaultLists(primary'[i])
       /\ \A r \in Requests :
             (Returns(r) /\ req'[r].result = "success" /\ req[r].pc \in {"saving", "savingAll"})
                 => req[r].ids \subseteq Ids(req[r].data.schedule)]_vars

\* The loop of a scan cycle runs over a schedule that the store delivered.
LoopRunsOnLoaded(s) == scan[s].pc = "loaded" /\ scan'[s].pc # "loaded" /\ scan[s].ok

\* The item was persisted as missed, the reschedule action has set it back
\* to Pending and the cycle has loaded it so.
SetBackToPending(item) ==
    item.failMessage = MissedMessage /\
    \E r \in Requests :
       /\ req[r].pc = "done" /\ req[r].op = "reschedule" /\ req[r].result = "success"
       /\ item.id \in req[r].ids
       /\ \E k \in DOMAIN req[r].data.schedule : req[r].data.schedule[k] = item

\* The cycle has the item queued or in flight, or marks it Failed for the
\* store and for the cache.
TakenCareOf(s, id) ==
    \/ id \in publishingInProgress'
    \/ /\ scan'[s].pc = "saving"
       /\ id \in Ids(scan'[s].newlyMissed)
       /\ \E k \in DOMAIN scan'[s].data.schedule :
             scan'[s].data.schedule[k].id = id /\ scan'[s].data.schedule[k].status = "Failed"

\* C39 (as stated) - No Pending item is silently skipped: the store being
\* available, every Pending item whose scheduledAtUTC has passed is, by the
\* next scan cycle, queued or in flight (its id in publishingInProgress) or
\* made Failed and put into missedItemsCache; this holds for the items that
\* are not in the cache and also for an item that still sits in the cache
\* from an earlier incident and was set back to Pending by the reschedule
\* action.
NoPendingItemSkipped ==
    [][\A s \in Scanners :
          LoopRunsOnLoaded(s) =>
              \A k \in DOMAIN scan[s].data.schedule :
                 LET item == scan[s].data.schedule[k] IN
                 (/\ item.status = "Pending"
                  /\ ~IsFuture(item.scheduledAtUTC, scan[s].now)
                  /\ (item.id \notin Ids(missedItemsCache) \/ SetBackToPending(item)))
                     => TakenCareOf(s, item.id)]_vars

====
